---- MODULE Spec2Model ----
(***************************************************************************)
(* Interaction pipeline of bobo-desk-pet: main (cmd/bobo/main.go), the      *)
(* command loop of voice.Interface (pkg/voice/interface.go), the recorder   *)
(* (pkg/voice/audio.go) and the augmentation engine claude.SmartClient      *)
(* (second half of pkg/config/config.go).                                   *)
(*                                                                         *)
(* Go strings are TLA+ strings; TLC evaluates Len, SubSeq and \o on them,  *)
(* one element per character.                                              *)
(***************************************************************************)
EXTENDS Integers, Sequences, FiniteSets, TLC

(***************************************************************************)
(* Bounds of the model.                                                    *)
(***************************************************************************)
\* number of lines the user may have typed ahead of the loop's next read
MaxPending == 1
\* number of needsWebSearch calls made on one client by the decision harness
MaxDecisions == 2
\* seconds the clock of the session can advance; it advances while a
\* recording runs to its end
MaxClock == 1
\* goroutines that call into one inference client at the same time
MaxCallers == 2
\* lines in the output of one run of the transcription backend
MaxLines == 2
\* characters in a text handed to Speak
MaxTextLen == 3
\* snippets a lookup returns
MaxSnippets == 4
\* phrases in a message a query is extracted from
MaxWords == 2
\* seconds a recording is asked to last
MaxDuration == 2
\* Cleanup calls made on one recorder
MaxCleanups == 3

(***************************************************************************)
(* String primitives of the Go standard library used by the code.          *)
(***************************************************************************)
UpperLetters == "ABCDEFGHIJKLMNOPQRSTUVWXYZÁÉÍÓÚÑÜ"
LowerLetters == "abcdefghijklmnopqrstuvwxyzáéíóúñü"
AsciiLetters == "ABCDEFGHIJKLMNOPQRSTUVWXYZabcdefghijklmnopqrstuvwxyz"
\* characters that UTF-8 encodes in two bytes, among those the inputs use
TwoByteChars == "ÁÉÍÓÚÑÜáéíóúñü°¡¿"
SpaceChars == " \t\n\r\f"

CharAt(s, i) == SubSeq(s, i, i)

IndexIn(alphabet, c) ==
    IF \E i \in 1..Len(alphabet) : CharAt(alphabet, i) = c
    THEN CHOOSE i \in 1..Len(alphabet) : CharAt(alphabet, i) = c
    ELSE 0

\* the characters of a string, as a set
CharsOf(alphabet) == { CharAt(alphabet, i) : i \in 1..Len(alphabet) }

SpaceSet == CharsOf(SpaceChars)
AsciiLetterSet == CharsOf(AsciiLetters)
TwoByteSet == CharsOf(TwoByteChars)

\* the lower-case form of each letter that has one
LowerOf == [ c \in CharsOf(UpperLetters) |-> CharAt(LowerLetters, IndexIn(UpperLetters, c)) ]

IsSpace(c) == c \in SpaceSet

IsAsciiLetter(c) == c \in AsciiLetterSet

\* unicode.ToLower on one character
ToLowerChar(c) == IF c \in DOMAIN LowerOf THEN LowerOf[c] ELSE c

RECURSIVE ToLower(_)
\* strings.ToLower, computed by halves
ToLower(s) ==
    IF Len(s) = 0 THEN ""
    ELSE IF Len(s) = 1 THEN ToLowerChar(s)
    ELSE ToLower(SubSeq(s, 1, Len(s) \div 2)) \o ToLower(SubSeq(s, Len(s) \div 2 + 1, Len(s)))

RECURSIVE TrimLeft(_)
TrimLeft(s) ==
    IF Len(s) > 0 /\ IsSpace(CharAt(s, 1)) THEN TrimLeft(SubSeq(s, 2, Len(s))) ELSE s

RECURSIVE TrimRight(_)
TrimRight(s) ==
    IF Len(s) > 0 /\ IsSpace(CharAt(s, Len(s))) THEN TrimRight(SubSeq(s, 1, Len(s) - 1)) ELSE s

\* strings.TrimSpace
TrimSpace(s) == TrimRight(TrimLeft(s))

\* strings.Contains
Contains(s, substr) ==
    \E i \in 1..(Len(s) - Len(substr) + 1) : SubSeq(s, i, i + Len(substr) - 1) = substr

\* len(s) of a Go string: the number of bytes of its UTF-8 encoding
ByteLen(s) ==
    Len(s) + Cardinality({ i \in 1..Len(s) : CharAt(s, i) \in TwoByteSet })

\* containsAny(text, substrings)
containsAny(text, substrings) ==
    \E k \in 1..Len(substrings) : Contains(text, substrings[k])


(***************************************************************************)
(* claude.SmartClient: the augmentation engine.                            *)
(***************************************************************************)
\* the phrases NewSmartClient compiles, each as the regexp (?i)<phrase>
triggerPatterns ==
    << "I don't have access to current information",
       "I cannot provide real-time information",
       "I don't have access to weather data",
       "real-time weather information",
       "I don't have access to internet",
       "updated data",
       "I don't have access to real-time",
       "I don't have access to current",
       "I cannot access current",
       "I don't have internet access",
       "real-time information",
       "current information",
       "up-to-date information" >>

\* the recency keywords of needsWebSearch
currentIndicators ==
    << "hoy", "today", "ahora", "now", "actual", "current",
       "reciente", "recent", "último", "latest", "tiempo",
       "weather", "noticias", "news", "precio", "price" >>

\* regexp (?i)<phrase> MatchString on a response given in lower case: the
\* phrases hold no regexp operator, so the match is a case-insensitive
\* substring search
TriggerMatches(trigger, responseLower) == Contains(responseLower, ToLower(trigger))

\* the Content of the last message, "" for an empty conversation
LastContent(messages) ==
    IF Len(messages) > 0 THEN messages[Len(messages)].Content ELSE ""

needsWebSearch(triggers, response, messages) ==
    LET responseLower == ToLower(response)
        userMessage == ToLower(LastContent(messages))
    IN  \/ \E k \in 1..Len(triggers) : TriggerMatches(triggers[k], responseLower)
        \/ /\ Len(messages) > 0
           /\ containsAny(userMessage, currentIndicators)

RECURSIVE SpaceRun(_, _)
\* number of consecutive \s characters of s from position j on
SpaceRun(s, j) ==
    IF j <= Len(s) /\ IsSpace(CharAt(s, j)) THEN 1 + SpaceRun(s, j + 1) ELSE 0

RECURSIVE ClassRun(_, _)
\* number of consecutive [A-Za-z\s] characters of s from position j on
ClassRun(s, j) ==
    IF j <= Len(s) /\ (IsSpace(CharAt(s, j)) \/ IsAsciiLetter(CharAt(s, j)))
    THEN 1 + ClassRun(s, j + 1) ELSE 0

\* the capture group of (?i)<word>\s+([A-Za-z\s]+) matched at position i of s,
\* as a sequence of zero (no match at i) or one string
LocationAt(word, s, i) ==
    LET w == SpaceRun(s, i + Len(word))
        a == i + Len(word) + w
        g == ClassRun(s, a)
    IN  IF i + Len(word) - 1 > Len(s) \/ ToLower(SubSeq(s, i, i + Len(word) - 1)) # word
             \/ w = 0
        THEN << >>
        ELSE IF g >= 1 THEN << SubSeq(s, a, a + g - 1) >>
        ELSE IF w >= 2 THEN << SubSeq(s, a - 1, a - 1) >>
        ELSE << >>

\* FindStringSubmatch of (?i)<word>\s+([A-Za-z\s]+): the leftmost match
FindLocation(word, s) ==
    LET hits == { i \in 1..Len(s) : LocationAt(word, s, i) # << >> }
    IN  IF hits = {} THEN << >>
        ELSE LocationAt(word, s, CHOOSE i \in hits : \A j \in hits : i <= j)

\* the location patterns, in the order extractSearchQuery tries them
locationPatterns == << "en", "in", "de" >>

\* extractSearchQuery when the news category is tried before the sports one
extractSearchQuery_NewsFirst(userMessage, claudeResponse) ==
    LET userLower == ToLower(userMessage)
        found == { k \in 1..Len(locationPatterns) :
                     FindLocation(locationPatterns[k], userMessage) # << >> }
        first == CHOOSE k \in found : \A j \in found : k <= j
    IN  IF containsAny(userLower, << "tiempo", "weather", "clima" >>)
        THEN IF found # {}
             THEN "weather today "
                  \o TrimSpace(FindLocation(locationPatterns[first], userMessage)[1])
             ELSE "weather today"
        ELSE IF containsAny(userLower, << "noticias", "news", "novedades" >>)
        THEN "latest news today"
        ELSE IF containsAny(userLower, << "real madrid", "madrid", "partido", "match",
                                          "resultado", "fútbol", "futbol", "football" >>)
        THEN IF Contains(userLower, "real madrid")
             THEN IF containsAny(userLower, << "último", "last", "recent", "ayer",
                                               "yesterday" >>)
                  THEN "Real Madrid latest match result today"
                  ELSE "Real Madrid news today"
             ELSE "football results today Spain"
        ELSE IF containsAny(userLower, << "precio", "price", "bitcoin", "crypto", "bolsa" >>)
        THEN IF Contains(userLower, "bitcoin")
             THEN "Bitcoin price today"
             ELSE "financial markets today"
        ELSE "current information " \o userMessage

extractSearchQuery(userMessage, claudeResponse) ==
    LET userLower == ToLower(userMessage)
        found == { k \in 1..Len(locationPatterns) :
                     FindLocation(locationPatterns[k], userMessage) # << >> }
        first == CHOOSE k \in found : \A j \in found : k <= j
    IN  IF containsAny(userLower, << "tiempo", "weather", "clima" >>)
        THEN IF found # {}
             THEN "weather today "
                  \o TrimSpace(FindLocation(locationPatterns[first], userMessage)[1])
             ELSE "weather today"
        ELSE IF containsAny(userLower, << "real madrid", "madrid", "partido", "match",
                                          "resultado", "fútbol", "futbol", "football" >>)
        THEN IF Contains(userLower, "real madrid")
             THEN IF containsAny(userLower, << "último", "last", "recent", "ayer",
                                               "yesterday" >>)
                  THEN "Real Madrid latest match result today"
                  ELSE "Real Madrid news today"
             ELSE "football results today Spain"
        ELSE IF containsAny(userLower, << "noticias", "news", "novedades" >>)
        THEN "latest news today"
        ELSE IF containsAny(userLower, << "precio", "price", "bitcoin", "crypto", "bolsa" >>)
        THEN IF Contains(userLower, "bitcoin")
             THEN "Bitcoin price today"
             ELSE "financial markets today"
        ELSE "current information " \o userMessage

\* a *SearchResults value; Nil marks the nil pointer
SearchResultsOf(results) == [Nil |-> FALSE, Results |-> results, Error |-> ""]

generateWeatherResults(location) ==
    IF ToLower(location) = "madrid"
    THEN SearchResultsOf(<<
           [Title |-> "Madrid Weather Now",
            Snippet |-> 
                "Partly cloudy, 8°C (46°F). High: 12°C, Low: 4°C. Light wind from the northwest at 10 km/h. No precipitation expected.",
            Source |-> "AEMET - Agencia Estatal de Meteorología"],
           [Title |-> "Current Weather Conditions Madrid",
            Snippet |-> 
                "Real-time weather: 8°C, feels like 6°C. Humidity 65%, visibility 10km. Air quality: Good.",
            Source |-> "Weather.com"] >>)
    ELSE SearchResultsOf(<<
           [Title |-> "Weather Today",
            Snippet |-> 
                "Current weather conditions and forecast. Check local weather services for specific location data.",
            Source |-> "Weather Service"] >>)

generateFootballResults ==
    SearchResultsOf(<<
      [Title |-> "Real Madrid 3-1 Athletic Bilbao - Yesterday",
       Snippet |-> 
                "Real Madrid ganó 3-1 contra Athletic Bilbao ayer en el Santiago Bernabéu. Goles de Vinícius Jr. (2) y Bellingham. Los Blancos siguen líderes en La Liga con 2 puntos de ventaja sobre el Barcelona.",
       Source |-> "Marca.com"],
      [Title |-> "La Liga Standings - Current",
       Snippet |-> 
                "1. Real Madrid - 58 pts, 2. FC Barcelona - 56 pts, 3. Atlético Madrid - 51 pts. El Real Madrid ha ganado 4 de sus últimos 5 partidos en Liga.",
       Source |-> "ESPN Deportes"] >>)

generateFinancialResults ==
    SearchResultsOf(<< [Title |-> "Bitcoin Price Now",
                        Snippet |-> 
                "Bitcoin: $52,430 USD (+2.3% today). Market cap: $1.03T. 24h trading volume: $28.5B.",
                        Source |-> "CoinMarketCap"] >>)

generateNewsResults ==
    SearchResultsOf(<< [Title |-> "Latest News Today",
                        Snippet |-> 
                "Top headlines: Technology markets show growth, renewable energy initiatives expanded, international cooperation agreements signed.",
                        Source |-> "News Agency"] >>)

generateSportsResults ==
    SearchResultsOf(<< [Title |-> "Football Results Today",
                        Snippet |-> 
                "La Liga: Real Madrid lidera. Premier League: Manchester City 2-0 Arsenal. Champions League: Octavos de final próxima semana.",
                        Source |-> "Mundo Deportivo"] >>)

generateMarketResults ==
    SearchResultsOf(<< [Title |-> "Financial Markets Today",
                        Snippet |-> 
                "Global markets mixed. S&P 500 +0.8%, NASDAQ +1.2%, EUR/USD 1.0856. Tech stocks leading gains.",
                        Source |-> "Financial Times"] >>)

generateCurrentInfoResults(query) ==
    SearchResultsOf(<< [Title |-> "Current Information Search",
                        Snippet |-> "Current search for: '" \o query
                                    \o "'. For more specific information, try rephrasing your question.",
                        Source |-> "Search Engine"] >>)

\* performSmartSearch, which returns what simulateRealisticSearch returns
simulateRealisticSearch(query) ==
    LET queryLower == ToLower(query)
    IN  IF Contains(queryLower, "weather today")
        THEN IF Contains(queryLower, "madrid")
             THEN generateWeatherResults("Madrid")
             ELSE generateWeatherResults("location")
        ELSE IF Contains(queryLower, "real madrid latest match") THEN generateFootballResults
        ELSE IF Contains(queryLower, "bitcoin price") THEN generateFinancialResults
        ELSE IF Contains(queryLower, "latest news") THEN generateNewsResults
        ELSE IF Contains(queryLower, "football results") THEN generateSportsResults
        ELSE IF Contains(queryLower, "financial markets") THEN generateMarketResults
        ELSE generateCurrentInfoResults(query)

\* the length of the prefix SendMessage slices off the primary reply for its
\* debug line: initialResponse[:100]
DebugPrefixLen == 100

\* initialResponse[:100] panics (slice bounds out of range) on a shorter reply
DebugSlicePanics(initialResponse) == ByteLen(initialResponse) < DebugPrefixLen

\* ShouldEnhance without its test for an empty result list
ShouldEnhance_IgnoresEmpty(searchResults) ==
    /\ ~searchResults.Nil
    /\ searchResults.Error = ""

\* the condition under which SendMessage calls createEnhancedResponse
ShouldEnhance(searchResults) ==
    /\ ~searchResults.Nil
    /\ searchResults.Error = ""
    /\ Len(searchResults.Results) > 0

\* EnhancedCallee when createEnhancedResponse calls SmartClient.SendMessage,
\* which examines the reply it gets
EnhancedCallee_Recursive == "smartClient"

\* the client createEnhancedResponse sends the augmented turn through:
\* the inner VertexClient, whose reply is not examined again
EnhancedCallee == "vertexClient"

\* EnhancedReturn when SendMessage returns whatever createEnhancedResponse
\* got, without the fallback
EnhancedReturn_NoFallback(initialResponse, outcome) ==
    [text |-> outcome.text, err |-> outcome.err]

\* what SendMessage returns once the second inference call has returned
\* outcome = (text, err): createEnhancedResponse turns an empty text into an
\* error, and SendMessage falls back to the primary reply on any error
EnhancedReturn(initialResponse, outcome) ==
    LET enhancedResponse == IF outcome.err # "" THEN "" ELSE outcome.text
        err == IF outcome.err # "" THEN "failed to get enhanced response"
               ELSE IF outcome.text = "" THEN "empty enhanced response" ELSE ""
    IN  IF err = "" /\ enhancedResponse # ""
        THEN [text |-> enhancedResponse, err |-> ""]
        ELSE [text |-> initialResponse, err |-> ""]

(***************************************************************************)
(* Inputs of the model: what the user types, what the external tools and   *)
(* the inference endpoint answer.                                          *)
(***************************************************************************)
\* lines the user types at the prompt
Lines == { "r", "l", "t", "x", "s", "q", "", " \t", " Q\t", "hi" }

\* cleaned transcripts the transcription backend yields ("" = no speech)
Transcripts == { "what's the weather in Madrid", "hola", "" }

\* the disclaimer phrase alone: 42 bytes
ShortDisclaimer == "I don't have access to current information"
\* a disclaimer of exactly 100 bytes
Disclaimer100 ==
    "Sorry, I don't have access to current information about that. Try a weather site for the forecast!!!"
\* a disclaimer in another casing, longer than 100 bytes
UpperDisclaimer ==
    "SORRY, BUT I CANNOT PROVIDE REAL-TIME INFORMATION: MY KNOWLEDGE STOPS AT MY TRAINING CUTOFF. PLEASE ASK SOMETHING ELSE."
ShortPlain == "¡Hola! ¿Qué tal?"
\* a reply without any trigger phrase, longer than 100 bytes
LongPlain ==
    "Madrid is the capital of Spain and its largest city, standing on the river Manzanares in the centre of the country."

\* non-empty texts the endpoint returns for the primary turn
Replies == { ShortDisclaimer, Disclaimer100, UpperDisclaimer, ShortPlain, LongPlain }

\* non-empty texts the endpoint returns for the augmented turn
EnhancedReplies == { "En Madrid hace 8°C, algo nublado pero sin lluvia.", Disclaimer100 }

\* (text, err) results of VertexClient.SendMessage: a non-empty text, or an
\* error with an empty text; an endpoint reply without text is an error
VertexOutcomes(texts) ==
    { [text |-> r, err |-> ""] : r \in texts }
        \cup { [text |-> "", err |-> "HTTP request failed"] }

\* any result an inference client of the same signature may give
AnyClientOutcomes(texts) == VertexOutcomes(texts) \cup { [text |-> "", err |-> ""] }

NilSearchResults == [Nil |-> TRUE, Results |-> << >>, Error |-> ""]

\* any result a lookup of the same signature may give for a query
AnyLookupOutcomes(query) ==
    { simulateRealisticSearch(query),
      NilSearchResults,
      SearchResultsOf(<< >>),
      [Nil |-> FALSE, Results |-> simulateRealisticSearch(query).Results,
       Error |-> "lookup failed"] }

\* (success, err) results of RecordAudio: (true, nil) or (false, err)
RecordAudioOutcomes == { "ok", "err" }

\* any result a recorder of the same signature may give: also (false, nil)
AnyRecorderOutcomes == RecordAudioOutcomes \cup { "notok" }

\* no run of the recorder child yet
NoRun == [status |-> "none", file |-> FALSE]

\* how the ffmpeg child of recordWithFFmpeg can end when nothing cancels it:
\* it exits with status zero, with or without the artifact on disk, or it
\* fails (executable missing or non-zero exit)
FFmpegRuns ==
    { [status |-> "exit0", file |-> TRUE],
      [status |-> "exit0", file |-> FALSE],
      [status |-> "failed", file |-> FALSE] }

\* the child was killed because its context was cancelled while it ran
KilledRuns == { [status |-> "killed", file |-> FALSE] }

\* the child was not started because its context was already cancelled
RefusedRun == [status |-> "refused", file |-> FALSE]

\* the run a recorder of another implementation reports for an outcome
AnyRun(outcome) == [status |-> "any", file |-> (outcome = "ok")]

\* the error recordWithFFmpeg returns for a run of its child ("" = nil)
recordWithFFmpeg(run) ==
    IF run.status # "exit0" THEN "ffmpeg recording failed"
    ELSE IF ~run.file THEN "audio file was not created"
    ELSE ""

\* the (success, err) RecordAudio returns for the result of recordWithFFmpeg
\* or for a cancelled context: (true, nil) or (false, err)
RecordAudio(err) == IF err # "" THEN "err" ELSE "ok"

Digits == "0123456789"

\* time.Now().Format("20060102_150405") in second n of the session
TimestampAt(n) == "20251105_12000" \o SubSeq(Digits, n + 1, n + 1)

\* the artifact path RecordAudio builds in second n
ArtifactPath(n) == "work/temp/desk_pet_recording_" \o TimestampAt(n) \o ".wav"

\* the components Initialize can fail on ("whisper": UseWhisperCpp is off);
\* NewAudioRecorder never fails
InitFailures == { "none", "whisper", "transcriber", "client", "reader" }

\* Initialize when it goes on after the client failed to connect
InitializeError_ClientIgnored(failure) ==
    CASE failure = "whisper" -> "Python Whisper not implemented yet, use whisper.cpp"
      [] failure = "transcriber" -> "failed to initialize whisper.cpp"
      [] failure = "reader" -> "failed to initialize readline"
      [] OTHER -> ""

\* the error Initialize returns ("" = nil)
InitializeError(failure) ==
    CASE failure = "whisper" -> "Python Whisper not implemented yet, use whisper.cpp"
      [] failure = "transcriber" -> "failed to initialize whisper.cpp"
      [] failure = "client" -> "failed to initialize Claude client"
      [] failure = "reader" -> "failed to initialize readline"
      [] OTHER -> ""

(***************************************************************************)
(* WhisperCppTranscriber: the output of the backend and its cleaning.      *)
(***************************************************************************)
\* strings.Index, counted from 1; 0 when substr does not occur
IndexOf(s, substr) ==
    LET at == { i \in 1..(Len(s) - Len(substr) + 1) :
                  SubSeq(s, i, i + Len(substr) - 1) = substr }
    IN  IF at = { } THEN 0 ELSE CHOOSE i \in at : \A j \in at : i <= j

RECURSIVE Split(_, _)
\* strings.Split(s, sep), sep not empty
Split(s, sep) ==
    LET i == IndexOf(s, sep) IN
    IF i = 0 THEN << s >>
    ELSE << SubSeq(s, 1, i - 1) >> \o Split(SubSeq(s, i + Len(sep), Len(s)), sep)

RECURSIVE Join(_, _)
\* strings.Join(elems, sep)
Join(elems, sep) ==
    IF Len(elems) = 0 THEN ""
    ELSE IF Len(elems) = 1 THEN elems[1]
    ELSE elems[1] \o sep \o Join(Tail(elems), sep)

RECURSIVE ReplaceAll(_, _, _)
\* strings.ReplaceAll(s, old, new), old not empty
ReplaceAll(s, old, new) ==
    LET i == IndexOf(s, old) IN
    IF i = 0 THEN s
    ELSE SubSeq(s, 1, i - 1) \o new \o ReplaceAll(SubSeq(s, i + Len(old), Len(s)), old, new)

RECURSIVE CollapseSpaces(_)
\* regexp \s+ replaced by one blank
CollapseSpaces(s) ==
    IF Len(s) = 0 THEN ""
    ELSE IF IsSpace(CharAt(s, 1))
    THEN " " \o CollapseSpaces(TrimLeft(s))
    ELSE CharAt(s, 1) \o CollapseSpaces(SubSeq(s, 2, Len(s)))

\* isTimestampLine: the regexp ^\s*\[.*-->\s*.*\]\s*$
isTimestampLine(line) ==
    LET t == TrimSpace(line) IN
    /\ Len(t) >= 5
    /\ CharAt(t, 1) = "["
    /\ CharAt(t, Len(t)) = "]"
    /\ Contains(SubSeq(t, 2, Len(t) - 1), "-->")

debugPatterns ==
    << "output_txt: saving output to", "output_vtt: saving output to",
       "output_srt: saving output to", "whisper_print_timings:", "load time =",
       "fallbacks =", "main:" >>

\* isDebugLine
isDebugLine(line) == containsAny(ToLower(line), debugPatterns)

\* the lines parseWhisperOutput looks at: those of the trimmed output, trimmed
TrimmedLines(output) ==
    LET lines == Split(TrimSpace(output), "\n")
    IN  [ k \in 1..Len(lines) |-> TrimSpace(lines[k]) ]

\* the test parseWhisperOutput keeps a line by
IsTextLine(line) == line # "" /\ ~isTimestampLine(line) /\ ~isDebugLine(line)

\* parseWhisperOutput
parseWhisperOutput(output) == Join(SelectSeq(TrimmedLines(output), IsTextLine), " ")

\* cleanTranscription
cleanTranscription(text) ==
    LET t1 == ReplaceAll(text, "[BLANK_AUDIO]", "")
        t2 == ReplaceAll(t1, "(silence)", "")
        t3 == ReplaceAll(t2, "(music)", "")
        t4 == ReplaceAll(t3, "[música]", "")
        t5 == ReplaceAll(t4, "[MÚSICA]", "")
    IN  TrimSpace(CollapseSpaces(t5))

\* no sibling output file
NoTxtFile == [exists |-> FALSE, data |-> ""]

\* the transcription Transcribe cleans: the parsed output of the child, or
\* the sibling .txt file as it is when the parsed output is empty
RawTranscription(output, txt) ==
    LET parsed == IF Len(output) > 0 THEN parseWhisperOutput(output) ELSE ""
    IN  IF parsed = "" /\ txt.exists THEN txt.data ELSE parsed

\* Transcribe on an initialized transcriber: in.audio says that the audio
\* file exists, in.exitOk that the child succeeded, in.output is its combined
\* output, in.txt the sibling file
Transcribe(in) ==
    IF ~in.audio
    THEN [text |-> "", err |-> "audio file does not exist", txtRemoved |-> FALSE]
    ELSE IF ~in.exitOk
    THEN [text |-> "", err |-> "whisper.cpp failed", txtRemoved |-> FALSE]
    ELSE [text |-> cleanTranscription(RawTranscription(in.output, in.txt)),
          err |-> "",
          txtRemoved |-> ( /\ in.txt.exists
                           /\ (IF Len(in.output) > 0 THEN parseWhisperOutput(in.output)
                               ELSE "") = "" )]

(***************************************************************************)
(* SystemTTS: the text handed to the synthesis command.                    *)
(***************************************************************************)
\* the characters emojiRegex keeps: \w, \s, the punctuation and the accented
\* letters of its class
AllowedChars ==
    Digits \o AsciiLetters \o "_" \o SpaceChars \o ".,!?:;-()'\"" \o "áéíóúñÁÉÍÓÚÑüÜ"

AllowedSet == CharsOf(AllowedChars)

RECURSIVE ReplaceDisallowed(_)
\* emojiRegex.ReplaceAllString(text, " ")
ReplaceDisallowed(text) ==
    IF Len(text) = 0 THEN ""
    ELSE (IF CharAt(text, 1) \in AllowedSet THEN CharAt(text, 1) ELSE " ")
         \o ReplaceDisallowed(SubSeq(text, 2, Len(text)))

RECURSIVE SkipRun(_, _)
\* s without the run of ch it starts with
SkipRun(s, ch) ==
    IF Len(s) > 0 /\ CharAt(s, 1) = ch THEN SkipRun(SubSeq(s, 2, Len(s)), ch) ELSE s

RECURSIVE ReplaceRuns(_, _, _)
\* regexp ch+ replaced by new
ReplaceRuns(s, ch, new) ==
    IF Len(s) = 0 THEN ""
    ELSE IF CharAt(s, 1) = ch
    THEN new \o ReplaceRuns(SkipRun(s, ch), ch, new)
    ELSE CharAt(s, 1) \o ReplaceRuns(SubSeq(s, 2, Len(s)), ch, new)

\* the markdown markers removed. The source also lists the backquote, which
\* a string of this module cannot hold; emojiRegex has replaced every
\* backquote by a blank before the list is applied
markdownPatterns == << "*", "#", "_" >>

RECURSIVE RemoveMarkdown(_, _)
\* the loop over markdownPatterns
RemoveMarkdown(text, patterns) ==
    IF Len(patterns) = 0 THEN text
    ELSE RemoveMarkdown(ReplaceRuns(text, Head(patterns), ""), Tail(patterns))

RECURSIVE CollapsePeriods(_)
\* regexp [\.]{2,} replaced by one period
CollapsePeriods(s) ==
    IF Len(s) = 0 THEN ""
    ELSE IF Len(s) >= 2 /\ SubSeq(s, 1, 2) = ".."
    THEN "." \o CollapsePeriods(SkipRun(s, "."))
    ELSE CharAt(s, 1) \o CollapsePeriods(SubSeq(s, 2, Len(s)))

\* cleanTextForSpeech
cleanTextForSpeech(text) ==
    LET t1 == ReplaceDisallowed(text)
        t2 == RemoveMarkdown(t1, markdownPatterns)
        t3 == ReplaceRuns(t2, "\n", ". ")
        t4 == CollapseSpaces(t3)
        t5 == CollapsePeriods(t4)
    IN  TrimSpace(t5)

\* Speak when it runs the command whatever the cleaning left
Speakable_Always(cleanText) == TRUE

\* Speak: there is speakable text after cleaning
Speakable(cleanText) == cleanText # ""

\* Speak: in.text is the text, in.runFails says that the command fails.
\* spawned tells whether the command was started, arg is its last argument
Speak(in) ==
    IF in.text = ""
    THEN [cleanText |-> "", spawned |-> FALSE, arg |-> "", err |-> ""]
    ELSE LET cleanText == cleanTextForSpeech(in.text) IN
         IF ~Speakable(cleanText)
         THEN [cleanText |-> cleanText, spawned |-> FALSE, arg |-> "", err |-> ""]
         ELSE [cleanText |-> cleanText, spawned |-> TRUE, arg |-> cleanText,
               err |-> IF in.runFails THEN "TTS command failed" ELSE ""]

(***************************************************************************)
(* SmartClient: the context block made of the snippets of a lookup.        *)
(***************************************************************************)
\* the snippets formatSearchResults formats at most
MaxFormatted == 3

RECURSIVE Itoa(_)
\* %d of a natural number
Itoa(n) ==
    IF n < 10 THEN SubSeq(Digits, n + 1, n + 1)
    ELSE Itoa(n \div 10) \o SubSeq(Digits, (n % 10) + 1, (n % 10) + 1)

\* a field of a result, or its placeholder when the field is empty
OrPlaceholder(field, placeholder) == IF field = "" THEN placeholder ELSE field

\* the entry of result i, counted from 1
FormatResult(i, result) ==
    Itoa(i) \o ". " \o OrPlaceholder(result.Title, "No title")
            \o " (" \o OrPlaceholder(result.Source, "Unknown source") \o ")\n   "
            \o OrPlaceholder(result.Snippet, "No description")

\* formatSearchResults when its loop has no limit
Formatted_All(results) == results

\* the results the loop of formatSearchResults reaches before its break
Formatted(results) ==
    SubSeq(results, 1, IF Len(results) < MaxFormatted THEN Len(results) ELSE MaxFormatted)

\* formatSearchResults
formatSearchResults(searchResults) ==
    IF Len(searchResults.Results) = 0
    THEN "No current information found."
    ELSE LET results == Formatted(searchResults.Results)
         IN  Join([ i \in 1..Len(results) |-> FormatResult(i, results[i]) ], "\n\n")

\* the locations findWhisperCpp searches after the configured one
searchPaths ==
    << "./work/repos/whisper.cpp/build/bin/whisper-cli",
       "./work/repos/whisper.cpp/build/bin/main",
       "./whisper.cpp/build/bin/whisper-cli",
       "./whisper.cpp/build/bin/main",
       "/usr/local/bin/whisper-cli",
       "/usr/local/bin/whisper",
       "whisper-cli",
       "whisper" >>

\* testWhisperCpp: nil ("") when running path with --help ends with status
\* zero; helps are the commands for which it does
testWhisperCpp(path, helps) == IF path \in helps THEN "" ELSE "exit status 1"

RECURSIVE FirstWorking(_, _, _)
\* the index from i on of the first of paths testWhisperCpp accepts, 0 if none
FirstWorking(paths, i, helps) ==
    IF i > Len(paths) THEN 0
    ELSE IF testWhisperCpp(paths[i], helps) = "" THEN i
    ELSE FirstWorking(paths, i + 1, helps)

\* os.Stat(path) succeeds for the files there are
Stat(path, existing) == path \in existing

\* findWhisperCpp: the whisperCppPath it sets and the error it returns
findWhisperCpp(WhisperCppPath, helps, existing) ==
    IF /\ WhisperCppPath # ""
       /\ Stat(WhisperCppPath, existing)
       /\ testWhisperCpp(WhisperCppPath, helps) = ""
    THEN [whisperCppPath |-> WhisperCppPath, err |-> ""]
    ELSE LET i == FirstWorking(searchPaths, 1, helps)
         IN  IF i # 0
             THEN [whisperCppPath |-> searchPaths[i], err |-> ""]
             ELSE [whisperCppPath |-> "",
                   err |-> "whisper.cpp binary not found. Run: bash scripts/setup_whisper_cpp.sh"]

\* NewWhisperCppTranscriber: nil and an error when findWhisperCpp fails
NewWhisperCppTranscriber(WhisperCppPath, helps, existing) ==
    LET found == findWhisperCpp(WhisperCppPath, helps, existing)
    IN  IF found.err # ""
        THEN [transcriber |-> "nil", whisperCppPath |-> "",
              err |-> "whisper.cpp not found: " \o found.err]
        ELSE [transcriber |-> "set", whisperCppPath |-> found.whisperCppPath, err |-> ""]

\* the speech commands detectTTSSystem tries, in its order
systems(rate) ==
    << [command |-> "espeak-ng", args |-> << "-v", "es", "-s", rate >>, test |-> << "--help" >>],
       [command |-> "espeak", args |-> << "-v", "es", "-s", rate >>, test |-> << "--help" >>],
       [command |-> "festival", args |-> << "--tts" >>, test |-> << "--help" >>] >>

\* testCommand: the command ran and ended with status zero
testCommand(command, args, helps) == command \in helps

RECURSIVE FirstSystem(_, _, _)
\* the index from i on of the first system testCommand accepts, 0 if none
FirstSystem(list, i, helps) ==
    IF i > Len(list) THEN 0
    ELSE IF testCommand(list[i].command, list[i].test, helps) THEN i
    ELSE FirstSystem(list, i + 1, helps)

\* detectTTSSystem inside NewTextToSpeech: nil and an error when no system
\* passes
NewTextToSpeech(rate, helps) ==
    LET i == FirstSystem(systems(rate), 1, helps)
    IN  IF i # 0
        THEN [tts |-> "set", command |-> systems(rate)[i].command,
              args |-> systems(rate)[i].args, err |-> ""]
        ELSE [tts |-> "nil", command |-> "", args |-> << >>,
              err |-> "no TTS system found: no supported TTS system found (tried: "
                      \o Join([ k \in 1..Len(systems(rate)) |-> systems(rate)[k].command ], ", ")
                      \o ")"]

\* the runs of the backend in a session: it writes what was said, or the
\* blank-audio marker, or it fails
BackendRuns ==
    { [audio |-> TRUE, exitOk |-> TRUE, output |-> said \o "\n", txt |-> NoTxtFile] :
        said \in Transcripts }
    \cup { [audio |-> TRUE, exitOk |-> TRUE, output |-> "[BLANK_AUDIO]\n", txt |-> NoTxtFile],
           [audio |-> TRUE, exitOk |-> FALSE, output |-> "", txt |-> NoTxtFile] }

\* what Transcribe returns for each of them
TranscribeOf == [ run \in BackendRuns |-> Transcribe(run) ]

\* processAudio when every transcription is taken for speech
NoSpeech_Never(transcription) == FALSE

\* processAudio: no speech detected
NoSpeech(transcription) == transcription = ""

\* what a goroutine calls on the client
CallKinds == { "SendMessage", "Initialize" }

\* the ways the setup of Initialize ends ("" = success)
SetupOutcomes ==
    { "", "authentication check failed", "failed to find default credentials",
      "no project ID found", "failed to create HTTP client" }

(***************************************************************************)
(* State.                                                                  *)
(***************************************************************************)
VARIABLES
    pc,                 \* where Run is: init (not called yet), select, readline,
                        \* recording, transcribing, inference, enhancing, speaking,
                        \* done, panicked, initFailed, killed (the process ended first)
    runResult,          \* what Run returned: running, nil, readErr, ctxErr, cmdErr, panic
    pending,            \* lines typed and not yet returned by Readline
    cancelled,          \* the context of Run is cancelled
    ttsEnabled,         \* v.config.TTS.Enabled
    ttsPresent,         \* v.tts != nil
    AudioFilePath,      \* v.recorder.AudioFilePath
    autoSearchEnabled,  \* SmartClient.autoSearchEnabled
    searchTriggers,     \* SmartClient.searchTriggers
    adapters,           \* "builtin": the repository's recorder, lookup and client;
                        \* "any": arbitrary implementations of their signatures
    turn,               \* what the command being executed has done so far
    initErr,            \* the error Initialize returned ("" = nil)
    mainPc,             \* where main is: select (waiting), exited
    released,           \* the releases Shutdown has made, in order
    errs,               \* the errs slice of Shutdown
    shutdownResult,     \* what Shutdown returned: pending, nil, shutdown errors
    files,              \* paths of the audio artifacts on disk
    transcribed,        \* those of them a Transcribe call has returned a text for
    clock,              \* the second of the session, as time.Now() gives it
    decideReply,        \* decision harness: the primary reply
    decideMessages,     \* decision harness: the message sequence
    decisions,          \* decision harness: results of the calls made so far
    callers,            \* VertexClient: the goroutines inside SendMessage or Initialize
    mu,                 \* VertexClient.mu: the writer holding it (0 = none), the readers
    initialized,        \* VertexClient.initialized
    setups,             \* VertexClient: how often the setup has run to success
    httpClient,         \* VertexClient.httpClient: 0 = nil, n = the client of setup n
    call,               \* one call of a function of the pipeline: callee, input, output
    rec                 \* one RecordAudio call and the goroutine it starts

vars == << pc, runResult, pending, cancelled, ttsEnabled, ttsPresent, AudioFilePath,
           autoSearchEnabled, searchTriggers, adapters, turn,
           initErr, mainPc, released, errs, shutdownResult,
           files, transcribed, clock,
           decideReply, decideMessages, decisions,
           callers, mu, initialized, setups, httpClient, call, rec >>

clientVars == << autoSearchEnabled, searchTriggers >>
lockVars == << callers, mu, initialized, setups, httpClient >>
callVars == << call >>
recVars == << rec >>
harnessVars == << decideReply, decideMessages, decisions, lockVars, callVars, recVars >>
sessionVars == << ttsEnabled, ttsPresent, AudioFilePath >>
initVars == << initErr >>
mainVars == << mainPc, released, errs, shutdownResult >>
diskVars == << files, transcribed, clock >>

\* no goroutine is inside the client and nothing has initialized it
NoCallers ==
    /\ callers = << >>
    /\ mu = [writer |-> 0, readers |-> 0]
    /\ initialized = FALSE
    /\ setups = 0
    /\ httpClient = 0

\* no function of the pipeline is called on its own
NoCall == [callee |-> "", input |-> "", output |-> "", returned |-> FALSE]

\* no RecordAudio call under way
NoRecording ==
    [ durationSeconds |-> 0,      \* the duration asked for
      caller          |-> "idle", \* RecordAudio: idle, select, returned
      success         |-> FALSE,  \* the results of RecordAudio
      err             |-> "",
      received        |-> "none", \* what RecordAudio received from recordingDone
      goroutine       |-> "none", \* none, running (its child runs), sending, done
      child           |-> "none", \* the ffmpeg child: none, running, refused, over
      ticks           |-> 0,      \* ticks of the progress ticker taken
      result          |-> "",     \* what recordWithFFmpeg returned ("" = nil)
      recordingDone   |-> << >>,  \* the values buffered in the channel
      ctxDone         |-> FALSE,  \* the context of the call is cancelled
      elapsed         |-> 0 ]     \* seconds since the child was started

\* the record of a command that has not started
NoTurn ==
    [ command         |-> "",      \* the command dispatched
      durationSeconds |-> 0,       \* the duration passed to RecordAudio
      recordCalls     |-> 0,       \* RecordAudio calls
      recordResult    |-> "none",  \* none, ok, notok, err
      transcribeCalls |-> 0,       \* Transcribe calls
      transcribeErr   |-> FALSE,
      transcript      |-> "",      \* the text Transcribe returned
      messages        |-> << >>,   \* the conversation turn sent to SendMessage
      inferenceCalls  |-> 0,       \* VertexClient.SendMessage calls
      primaryErr      |-> FALSE,   \* the primary call failed
      initialResponse |-> "",      \* the primary reply
      attempted       |-> FALSE,   \* query extraction and lookup ran
      searchQuery     |-> "",
      lookupFailed    |-> FALSE,   \* the lookup gave nil or reported an error
      snippets        |-> 0,       \* snippets the lookup returned
      enhanced        |-> "none",  \* second call: none, err, empty, text
      enhancedText    |-> "",      \* the text the second call returned
      returned        |-> FALSE,   \* SmartClient.SendMessage returned
      response        |-> "",      \* the text it returned
      responseErr     |-> "",      \* the error it returned ("" = nil)
      speakCalls      |-> 0,       \* Speak calls
      speakText       |-> "",
      speakErr        |-> FALSE,
      child           |-> "none",  \* child process of the stage: none, running,
                                   \* killed, refused
      childRun        |-> NoRun,   \* how the recorder child ended
      audioPath       |-> "",      \* the path RecordAudio built
      logged          |-> << >> ]  \* Warn and Error lines of this command

Log(t, line) == [t EXCEPT !.logged = Append(@, line)]

Message(role, content) == [Role |-> role, Content |-> content]

\* make([]Message, n): n zero-valued messages
makeMessages(n) == [ i \in 1..n |-> Message("", "") ]

\* copy without effect
copyMessages_None(dst, src) == dst

\* copy(dst, src): the first min(len(dst), len(src)) elements of src over dst
copyMessages(dst, src) ==
    [ i \in 1..Len(dst) |-> IF i <= Len(src) THEN src[i] ELSE dst[i] ]

\* the content of the user message createEnhancedResponse appends
enhancedPrompt(searchQuery, searchContext) ==
    "I searched for current information about '" \o searchQuery
        \o "' and found this:\n\n" \o searchContext
        \o "\n\nWith this info, respond to my original question briefly and informally (maximum 2-3 sentences)."

\* createEnhancedResponse up to its inference call: sent is the sequence
\* handed to SendMessage, messages the sequence of the caller afterwards (no
\* element of it is assigned to)
createEnhancedResponse(messages, initialResponse, searchQuery, searchResults) ==
    LET searchContext == formatSearchResults(searchResults)
        copied == copyMessages(makeMessages(Len(messages)), messages)
        withReply == Append(copied, Message("assistant", initialResponse))
    IN  [sent |-> Append(withReply, Message("user", enhancedPrompt(searchQuery, searchContext))),
         messages |-> messages]

\* CommandOf without the normalisation of the line
CommandOf_Raw(line) == line

\* the command when the line is lower-cased and not trimmed
CommandOf_LowerOnly(line) == ToLower(line)

\* the command Run dispatches on for an input line
CommandOf(line) == TrimSpace(ToLower(line))

\* the message of the Error line Run logs when a command handler fails
CommandErrorLog(command) ==
    CASE command = "r" -> "ERROR Voice command failed"
      [] command = "l" -> "ERROR Long voice command failed"
      [] command = "t" -> "ERROR Microphone test failed"
      [] command = "x" -> "ERROR TTS test failed"

\* NextAfterCommand when Run returns the error of a failed command
NextAfterCommand_ReturnsError(failed) == IF failed THEN "done" ELSE "select"

\* where Run goes when a command handler has returned, with or without an
\* error: the error is only logged and the loop iterates
NextAfterCommand(failed) == "select"

\* the handler of the current command returned; t is its final record
EndCommand(t, failed) ==
    /\ turn' = (IF failed THEN Log(t, CommandErrorLog(t.command)) ELSE t)
    /\ pc' = NextAfterCommand(failed)
    /\ runResult' = IF NextAfterCommand(failed) = "done" THEN "cmdErr" ELSE runResult

\* main has built the Interface with voice.New and is about to call Initialize
Init ==
    /\ pc = "init"
    /\ runResult = "running"
    /\ pending = << >>
    /\ cancelled = FALSE
    /\ ttsEnabled \in BOOLEAN
    /\ ttsPresent = FALSE
    /\ AudioFilePath = ""
    /\ autoSearchEnabled \in BOOLEAN
    /\ searchTriggers = triggerPatterns
    /\ adapters = "builtin"
    /\ turn = NoTurn
    /\ initErr = ""
    /\ mainPc = "select"
    /\ released = << >>
    /\ errs = << >>
    /\ shutdownResult = "pending"
    /\ files = { }
    /\ transcribed = { }
    /\ clock = 0
    /\ decideReply = ""
    /\ decideMessages = << >>
    /\ decisions = << >>
    /\ NoCallers
    /\ call = NoCall
    /\ rec = NoRecording

(***************************************************************************)
(* Interface.Initialize, called by main before Run.                        *)
(***************************************************************************)
\* FlagAfterProbe when a missing backend leaves the flag as configured
FlagAfterProbe_StaysOn(enabled, found) == enabled

\* v.config.TTS.Enabled after the TTS part of Initialize: a configured flag
\* is turned off when no backend is found
FlagAfterProbe(enabled, found) == enabled /\ found

\* v.tts != nil after the TTS part of Initialize: the backend is looked for
\* only when the flag is configured on
PresentAfterProbe(enabled, found) == enabled /\ found

\* Initialize: transcriber, client and recorder first, so a failure of the
\* transcriber or the client returns before TTS is looked at; then TTS, whose
\* failure is a warning; then the reader. On an error main exits with 1.
Initialize(failure, found) ==
    /\ pc = "init"
    /\ LET probed == failure \notin { "whisper", "transcriber", "client" } IN
       /\ ttsPresent' = (probed /\ PresentAfterProbe(ttsEnabled, found))
       /\ ttsEnabled' = IF probed THEN FlagAfterProbe(ttsEnabled, found) ELSE ttsEnabled
    /\ initErr' = InitializeError(failure)
    /\ IF failure = "none"
       THEN pc' = "select" /\ UNCHANGED mainPc
       ELSE pc' = "initFailed" /\ mainPc' = "exited"
    /\ UNCHANGED << runResult, pending, cancelled, AudioFilePath, turn, clientVars,
                    adapters, harnessVars, released, errs, shutdownResult, diskVars >>

(***************************************************************************)
(* Environment: the user at the terminal and the interrupt signal.         *)
(***************************************************************************)
\* KillChild when a child outlives the cancellation of its context
KillChild_Detached(child) == child

\* what the cancellation of the context does to the child of the current
\* stage: exec.CommandContext kills a running child
KillChild(child) == IF child = "running" THEN "killed" ELSE child

\* the state of a child started with exec.CommandContext on a context that is
\* done (the child is not started) or not
StartChild(done) == IF done THEN "refused" ELSE "running"

\* the user enters a line; readline buffers it until Run reads it
TypeLine(line) ==
    /\ runResult = "running"
    /\ pc \in { "select", "readline", "recording", "transcribing", "inference",
                "enhancing", "speaking" }
    /\ Len(pending) < MaxPending
    /\ mainPc # "exited"
    /\ pending' = Append(pending, line)
    /\ UNCHANGED << pc, runResult, cancelled, turn, sessionVars, clientVars, adapters,
                    harnessVars, initVars, mainVars, diskVars >>

\* SIGINT or SIGTERM: the goroutine Run started calls cancel(), which kills
\* the child of the current stage; main receives the signal on its own channel
Signal ==
    /\ runResult = "running"
    /\ pc \in { "select", "readline", "recording", "transcribing", "inference",
                "enhancing", "speaking" }
    /\ mainPc # "exited"
    /\ ~cancelled
    /\ cancelled' = TRUE
    /\ turn' = [turn EXCEPT !.child = KillChild(@)]
    /\ UNCHANGED << pc, runResult, pending, sessionVars, clientVars, adapters,
                    harnessVars, initVars, mainVars, diskVars >>

(***************************************************************************)
(* Interface.Run: the command loop.                                        *)
(***************************************************************************)
\* top of the loop: select on ctx.Done() with a default that goes to Readline;
\* the previous command is over, its record is dropped
LoopSelect ==
    /\ pc = "select"
    /\ mainPc # "exited"
    /\ IF cancelled
       THEN pc' = "done" /\ runResult' = "ctxErr"
       ELSE pc' = "readline" /\ UNCHANGED runResult
    /\ turn' = NoTurn
    /\ UNCHANGED << pending, cancelled, sessionVars, clientVars, adapters, harnessVars, initVars, mainVars, diskVars >>

\* Readline returns an error: ErrInterrupt and io.EOF end Run with nil, any
\* other error ends it with that error
ReadlineFails(err) ==
    /\ pc = "readline"
    /\ mainPc # "exited"
    /\ pc' = "done"
    /\ runResult' = IF err \in { "ErrInterrupt", "EOF" } THEN "nil" ELSE "readErr"
    /\ UNCHANGED << pending, cancelled, turn, sessionVars, clientVars, adapters,
                    harnessVars, initVars, mainVars, diskVars >>

\* Reads when a line is taken wherever Run is
Reads_Anytime(commands) ==
    /\ mainPc # "exited"
    /\ pending # << >>
    /\ CommandOf(Head(pending)) \in commands
    /\ pending' = Tail(pending)

\* Readline returned the oldest pending line and the switch selects command
Reads(commands) ==
    /\ pc = "readline"
    /\ mainPc # "exited"
    /\ pending # << >>
    /\ CommandOf(Head(pending)) \in commands
    /\ pending' = Tail(pending)

\* 'r' and 'l': processVoiceCommand calls RecordAudio, which sets the path of
\* the new artifact and waits for the recorder
ReadRecord ==
    /\ Reads({ "r", "l" })
    /\ turn' = [NoTurn EXCEPT !.command = CommandOf(Head(pending)),
                              !.durationSeconds = IF CommandOf(Head(pending)) = "r"
                                                  THEN 7 ELSE 12,
                              !.recordCalls = 1,
                              !.audioPath = ArtifactPath(clock),
                              !.child = StartChild(cancelled)]
    /\ AudioFilePath' = ArtifactPath(clock)
    /\ pc' = "recording"
    /\ UNCHANGED << runResult, cancelled, ttsEnabled, ttsPresent, clientVars, adapters,
                    harnessVars, initVars, mainVars, diskVars >>

\* 't': testMicrophone calls RecordAudio
ReadTestMicrophone ==
    /\ Reads({ "t" })
    /\ turn' = [NoTurn EXCEPT !.command = "t", !.durationSeconds = 3, !.recordCalls = 1,
                              !.audioPath = ArtifactPath(clock),
                              !.child = StartChild(cancelled)]
    /\ AudioFilePath' = ArtifactPath(clock)
    /\ pc' = "recording"
    /\ UNCHANGED << runResult, cancelled, ttsEnabled, ttsPresent, clientVars, adapters,
                    harnessVars, initVars, mainVars, diskVars >>

\* the sentence testTTS speaks
testText == "Hello, this is a voice test. Everything is working correctly."

\* 'x': testTTS speaks the canned sentence unless speech is off or missing
ReadTestTTS ==
    /\ Reads({ "x" })
    /\ IF ~ttsEnabled \/ ~ttsPresent
       THEN EndCommand([NoTurn EXCEPT !.command = "x"], FALSE)
       ELSE /\ turn' = [NoTurn EXCEPT !.command = "x", !.speakCalls = 1,
                                      !.speakText = testText,
                                      !.child = StartChild(cancelled)]
            /\ pc' = "speaking"
            /\ UNCHANGED runResult
    /\ UNCHANGED << cancelled, sessionVars, clientVars, adapters, harnessVars, initVars, mainVars, diskVars >>

\* 's' when it turns speech on whatever the flag was
ToggleTTS_On(enabled) == TRUE

\* 's': v.config.TTS.Enabled = !v.config.TTS.Enabled
ToggleTTS(enabled) == ~enabled

\* 's': flip the TTS flag
ReadToggle ==
    /\ Reads({ "s" })
    /\ ttsEnabled' = ToggleTTS(ttsEnabled)
    /\ turn' = [NoTurn EXCEPT !.command = "s"]
    /\ pc' = "select"
    /\ UNCHANGED << runResult, cancelled, ttsPresent, AudioFilePath, clientVars, adapters,
                    harnessVars, initVars, mainVars, diskVars >>

\* 'q': Run returns nil
ReadQuit ==
    /\ Reads({ "q" })
    /\ turn' = [NoTurn EXCEPT !.command = "q"]
    /\ pc' = "done"
    /\ runResult' = "nil"
    /\ UNCHANGED << cancelled, sessionVars, clientVars, adapters, harnessVars, initVars, mainVars, diskVars >>

\* the empty command: continue
ReadEmpty ==
    /\ Reads({ "" })
    /\ turn' = NoTurn
    /\ pc' = "select"
    /\ UNCHANGED << runResult, cancelled, sessionVars, clientVars, adapters, harnessVars, initVars, mainVars, diskVars >>

\* any other command: a warning
ReadUnknown ==
    /\ pc = "readline"
    /\ mainPc # "exited"
    /\ pending # << >>
    /\ CommandOf(Head(pending)) \notin { "r", "l", "t", "x", "s", "q", "" }
    /\ pending' = Tail(pending)
    /\ turn' = Log([NoTurn EXCEPT !.command = CommandOf(Head(pending))],
                   "WARN Unknown command")
    /\ pc' = "select"
    /\ UNCHANGED << runResult, cancelled, sessionVars, clientVars, adapters, harnessVars, initVars, mainVars, diskVars >>

(***************************************************************************)
(* processVoiceCommand, testMicrophone, processAudio.                      *)
(***************************************************************************)
\* AfterRecord when success is ignored, as testMicrophone ignores it
AfterRecord_IgnoresSuccess(outcome) ==
    IF outcome = "err" THEN "fail" ELSE "process"

\* what processVoiceCommand does with the (success, err) of RecordAudio
AfterRecord(outcome) ==
    IF outcome = "err" THEN "fail"
    ELSE IF outcome = "notok" THEN "skip"
    ELSE "process"

\* seconds by which the clock has advanced when a run of the recorder is
\* over: a run that has written its artifact lasted the duration asked for,
\* any other run is over within the second
Elapsed(run) == IF run.file THEN 1 ELSE 0

\* the runs of the recorder child after which RecordAudio returns outcome,
\* among those that keep the clock within its bound
RunsFor(outcome) ==
    { run \in (IF adapters = "any" THEN { AnyRun(outcome) }
               ELSE { r \in (CASE turn.child = "killed" -> KilledRuns
                               [] turn.child = "refused" -> { RefusedRun }
                               [] OTHER -> FFmpegRuns) :
                        RecordAudio(recordWithFFmpeg(r)) = outcome }) :
        clock + Elapsed(run) <= MaxClock }

\* RecordAudio returns to processVoiceCommand ('r', 'l') or testMicrophone ('t');
\* a child that exited with status zero ran for the whole duration
RecordDone(outcome) ==
    /\ pc = "recording"
    /\ mainPc # "exited"
    /\ outcome \in (IF adapters = "any" THEN AnyRecorderOutcomes ELSE RecordAudioOutcomes)
    /\ \E run \in RunsFor(outcome) :
         /\ clock' = clock + Elapsed(run)
         /\ files' = IF run.file THEN files \cup { turn.audioPath } ELSE files
         /\ transcribed' = IF run.file THEN transcribed \ { turn.audioPath } ELSE transcribed
         /\ LET t == [turn EXCEPT !.recordResult = outcome, !.childRun = run,
                                  !.child = "none"] IN
            IF turn.command = "t"
            THEN EndCommand(t, outcome = "err")
            ELSE CASE AfterRecord(outcome) = "fail" -> EndCommand(t, TRUE)
                   [] AfterRecord(outcome) = "skip" ->
                         EndCommand(Log(t, "WARN Recording was not successful"), FALSE)
                   [] AfterRecord(outcome) = "process" ->
                         IF AudioFilePath = ""
                         THEN EndCommand(t, TRUE)
                         ELSE /\ turn' = [t EXCEPT !.transcribeCalls = @ + 1,
                                                   !.child = StartChild(cancelled)]
                              /\ pc' = "transcribing"
                              /\ UNCHANGED runResult
    /\ UNCHANGED << pending, cancelled, sessionVars, clientVars, adapters, harnessVars,
                    initVars, mainVars >>

\* Transcribe returns to processAudio: an error, or the cleaned transcript
TranscribeDone(failed, text) ==
    /\ pc = "transcribing"
    /\ mainPc # "exited"
    /\ turn.child \in { "killed", "refused" } => failed
    /\ transcribed' = IF failed THEN transcribed
                      ELSE transcribed \cup ({ turn.audioPath } \cap files)
    /\ LET transcription == TrimSpace(text)
           t == [turn EXCEPT !.child = "none"]
       IN  IF failed
           THEN EndCommand([t EXCEPT !.transcribeErr = TRUE], TRUE)
           ELSE IF NoSpeech(transcription)
           THEN EndCommand(Log([t EXCEPT !.transcript = text], "WARN No speech detected"),
                           FALSE)
           ELSE /\ turn' = [t EXCEPT !.transcript = text,
                                     !.messages = << Message("user", transcription) >>,
                                     !.inferenceCalls = @ + 1]
                /\ pc' = "inference"
                /\ UNCHANGED runResult
    /\ UNCHANGED << pending, cancelled, sessionVars, clientVars, adapters, harnessVars,
                    initVars, mainVars, files, clock >>

\* Deliver when processAudio speaks whenever there is an engine
Deliver_FlagIgnored(t, response) ==
    LET r == [t EXCEPT !.returned = TRUE, !.response = response] IN
    IF response = ""
    THEN EndCommand(Log(r, "WARN Claude didn't respond"), FALSE)
    ELSE IF ttsPresent
    THEN /\ turn' = [r EXCEPT !.speakCalls = @ + 1, !.speakText = response,
                              !.child = StartChild(cancelled)]
         /\ pc' = "speaking"
         /\ UNCHANGED runResult
    ELSE EndCommand(r, FALSE)

\* SmartClient.SendMessage returned (response, nil) to processAudio
Deliver(t, response) ==
    LET r == [t EXCEPT !.returned = TRUE, !.response = response] IN
    IF response = ""
    THEN EndCommand(Log(r, "WARN Claude didn't respond"), FALSE)
    ELSE IF ttsEnabled /\ ttsPresent
    THEN /\ turn' = [r EXCEPT !.speakCalls = @ + 1, !.speakText = response,
                              !.child = StartChild(cancelled)]
         /\ pc' = "speaking"
         /\ UNCHANGED runResult
    ELSE EndCommand(r, FALSE)

\* SmartClient.SendMessage returned ("", err) to processAudio
DeliverError(t, err) ==
    EndCommand([t EXCEPT !.returned = TRUE, !.responseErr = err], TRUE)

\* SendMessageBody when the auto-search setting is not looked at
SendMessageBody_SearchAlways(t, outcome) ==
    IF outcome.err # ""
    THEN DeliverError([t EXCEPT !.primaryErr = TRUE], "failed to get initial response")
    ELSE IF outcome.text = ""
    THEN DeliverError([t EXCEPT !.primaryErr = TRUE], "empty response from Claude")
    ELSE LET initialResponse == outcome.text
             t1 == [t EXCEPT !.initialResponse = initialResponse]
             userMessage == LastContent(t.messages)
             searchQuery == extractSearchQuery(userMessage, initialResponse)
         IN  IF needsWebSearch(searchTriggers, initialResponse, t.messages)
             THEN IF DebugSlicePanics(initialResponse)
                  THEN /\ turn' = t1
                       /\ pc' = "panicked"
                       /\ runResult' = "panic"
                  ELSE IF searchQuery # ""
                  THEN \E searchResults \in
                           (IF adapters = "any" THEN AnyLookupOutcomes(searchQuery)
                            ELSE { simulateRealisticSearch(searchQuery) }) :
                         LET t2 == [t1 EXCEPT !.attempted = TRUE,
                                              !.searchQuery = searchQuery,
                                              !.lookupFailed = searchResults.Nil
                                                               \/ searchResults.Error # "",
                                              !.snippets = Len(searchResults.Results)]
                         IN  IF ShouldEnhance(searchResults)
                             THEN /\ turn' = [t2 EXCEPT !.inferenceCalls = @ + 1]
                                  /\ pc' = "enhancing"
                                  /\ UNCHANGED runResult
                             ELSE Deliver(t2, initialResponse)
                  ELSE Deliver([t1 EXCEPT !.searchQuery = searchQuery], initialResponse)
             ELSE Deliver(t1, initialResponse)

\* the body of SmartClient.SendMessage from the return of its first
\* inference call, outcome, to its own return or its second inference call
SendMessageBody(t, outcome) ==
    IF outcome.err # ""
    THEN DeliverError([t EXCEPT !.primaryErr = TRUE], "failed to get initial response")
    ELSE IF outcome.text = ""
    THEN DeliverError([t EXCEPT !.primaryErr = TRUE], "empty response from Claude")
    ELSE LET initialResponse == outcome.text
             t1 == [t EXCEPT !.initialResponse = initialResponse]
             userMessage == LastContent(t.messages)
             searchQuery == extractSearchQuery(userMessage, initialResponse)
         IN  IF autoSearchEnabled /\ needsWebSearch(searchTriggers, initialResponse, t.messages)
             THEN IF DebugSlicePanics(initialResponse)
                  THEN /\ turn' = t1
                       /\ pc' = "panicked"
                       /\ runResult' = "panic"
                  ELSE IF searchQuery # ""
                  THEN \E searchResults \in
                           (IF adapters = "any" THEN AnyLookupOutcomes(searchQuery)
                            ELSE { simulateRealisticSearch(searchQuery) }) :
                         LET t2 == [t1 EXCEPT !.attempted = TRUE,
                                              !.searchQuery = searchQuery,
                                              !.lookupFailed = searchResults.Nil
                                                               \/ searchResults.Error # "",
                                              !.snippets = Len(searchResults.Results)]
                         IN  IF ShouldEnhance(searchResults)
                             THEN /\ turn' = [t2 EXCEPT !.inferenceCalls = @ + 1]
                                  /\ pc' = "enhancing"
                                  /\ UNCHANGED runResult
                             ELSE Deliver(t2, initialResponse)
                  ELSE Deliver([t1 EXCEPT !.searchQuery = searchQuery], initialResponse)
             ELSE Deliver(t1, initialResponse)

\* the primary inference call returns
PrimaryDone(outcome) ==
    /\ pc = "inference"
    /\ mainPc # "exited"
    /\ outcome \in (IF adapters = "any" THEN AnyClientOutcomes(Replies)
                    ELSE VertexOutcomes(Replies))
    /\ SendMessageBody(turn, outcome)
    /\ UNCHANGED << pending, cancelled, sessionVars, clientVars, adapters, harnessVars, initVars, mainVars, diskVars >>

\* the second inference call, made by createEnhancedResponse, returns
EnhancedDone(outcome) ==
    /\ pc = "enhancing"
    /\ mainPc # "exited"
    /\ outcome \in (IF adapters = "any" THEN AnyClientOutcomes(EnhancedReplies)
                    ELSE VertexOutcomes(EnhancedReplies))
    /\ LET t == [turn EXCEPT !.enhanced = IF outcome.err # "" THEN "err"
                                          ELSE IF outcome.text = "" THEN "empty"
                                          ELSE "text",
                             !.enhancedText = outcome.text]
           ret == EnhancedReturn(turn.initialResponse, outcome)
           logged == IF t.enhanced = "text" THEN t
                     ELSE Log(t, "WARN Failed to create enhanced response, falling back to original")
       IN  IF EnhancedCallee = "vertexClient"
           THEN IF ret.err # "" THEN DeliverError(logged, ret.err)
                ELSE Deliver(logged, ret.text)
           ELSE SendMessageBody(t, outcome)
    /\ UNCHANGED << pending, cancelled, sessionVars, clientVars, adapters, harnessVars, initVars, mainVars, diskVars >>

\* Speak returns to processAudio (a failure is a warning) or to testTTS (a
\* failure is the command's error)
SpeakDone(failed) ==
    /\ pc = "speaking"
    /\ mainPc # "exited"
    /\ turn.child \in { "killed", "refused" } => failed
    /\ LET t == [turn EXCEPT !.speakErr = failed, !.child = "none"] IN
       IF turn.command = "x"
       THEN EndCommand(t, failed)
       ELSE EndCommand(IF failed THEN Log(t, "WARN TTS failed") ELSE t, FALSE)
    /\ UNCHANGED << pending, cancelled, sessionVars, clientVars, adapters, harnessVars, initVars, mainVars, diskVars >>

(***************************************************************************)
(* main: the wait for a signal or for the return of Run, then Shutdown.    *)
(***************************************************************************)
\* the order in which Shutdown releases the components
ShutdownOrder == << "rl", "claudeClient", "recorder" >>

\* the text Shutdown wraps the error of a release in
ReleaseError(component) ==
    CASE component = "rl" -> "readline shutdown"
      [] component = "claudeClient" -> "Claude client shutdown"
      [] component = "recorder" -> "recorder cleanup"

\* a release failed
IsFailed(release) == release.failed

\* the index of the first failed release of rs, or Len(rs) if none failed
FirstFailed(rs) ==
    IF \E i \in 1..Len(rs) : rs[i].failed
    THEN CHOOSE i \in 1..Len(rs) : rs[i].failed /\ \A j \in 1..(i - 1) : ~rs[j].failed
    ELSE Len(rs)

\* Attempted when Shutdown returns at the first release that fails
Attempted_StopsAtFirstError(rs) == SubSeq(rs, 1, FirstFailed(rs))

\* the releases Shutdown attempts, of the releases rs of its components in
\* order with their outcomes: all of them, no failure stops it
Attempted(rs) == rs

\* the errs slice Shutdown has collected after the releases rs
Collected(rs) ==
    LET failedOnes == SelectSeq(rs, IsFailed)
    IN  [i \in 1..Len(failedOnes) |-> ReleaseError(failedOnes[i].component)]

\* the path field names a recording
NamesRecording(path) == path # "" /\ Contains(path, "desk_pet_recording_")

\* the releases of the components in order, the reader's failing or not and
\* the recorder's failing or not
ReleasesOf(closeFails, cleanupFails) ==
    [i \in 1..Len(ShutdownOrder) |->
        [component |-> ShutdownOrder[i],
         failed |-> CASE ShutdownOrder[i] = "rl" -> closeFails
                      [] ShutdownOrder[i] = "claudeClient" -> FALSE
                      [] ShutdownOrder[i] = "recorder" -> cleanupFails]]

\* main leaves its select, because the signal is on its channel or because
\* Run has returned and the goroutine that ran it has cancelled the context,
\* and calls Shutdown: v.rl.Close(), which may fail; v.claudeClient.Shutdown(),
\* which returns nil; v.recorder.Cleanup(), which removes the file the path
\* field names and clears the field, and fails, leaving the field, when the
\* removal fails for another reason than a missing file. Then main returns,
\* which ends the process and with it Run and the command it executes.
Shutdown(closeFails, removeFails) ==
    /\ mainPc = "select"
    /\ pc \in { "select", "readline", "recording", "transcribing", "inference",
                "enhancing", "speaking", "done" }
    /\ cancelled \/ pc = "done"
    /\ removeFails => AudioFilePath \in files
    /\ \E rs \in { Attempted(ReleasesOf(closeFails, removeFails)) } :
       \E cleans \in { /\ \E i \in 1..Len(rs) : rs[i].component = "recorder"
                       /\ ~removeFails
                       /\ NamesRecording(AudioFilePath) } :
           /\ released' = rs
           /\ errs' = Collected(rs)
           /\ shutdownResult' = IF \E i \in 1..Len(rs) : rs[i].failed
                                THEN "shutdown errors" ELSE "nil"
           /\ files' = IF cleans THEN files \ { AudioFilePath } ELSE files
           /\ transcribed' = IF cleans THEN transcribed \ { AudioFilePath } ELSE transcribed
           /\ AudioFilePath' = IF cleans THEN "" ELSE AudioFilePath
    /\ mainPc' = "exited"
    /\ IF pc = "done"
       THEN UNCHANGED << pc, turn >>
       ELSE pc' = "killed" /\ turn' = NoTurn
    /\ UNCHANGED << runResult, pending, cancelled, ttsEnabled, ttsPresent, clientVars,
                    adapters, harnessVars, initVars, clock >>

(***************************************************************************)
(* The decision function called repeatedly on one client.                  *)
(***************************************************************************)
\* CallNeedsWebSearch when a call uses up the trigger set
CallNeedsWebSearch_Consuming ==
    /\ pc = "harness"
    /\ Len(decisions) < MaxDecisions
    /\ decisions' = Append(decisions,
                           needsWebSearch(searchTriggers, decideReply, decideMessages))
    /\ searchTriggers' = << >>
    /\ UNCHANGED << pc, runResult, pending, cancelled, turn, sessionVars,
                    autoSearchEnabled, adapters, decideReply, decideMessages,
                    initVars, mainVars, diskVars, lockVars, callVars, recVars >>

\* one call of needsWebSearch: it reads the trigger set and writes nothing
CallNeedsWebSearch ==
    /\ pc = "harness"
    /\ Len(decisions) < MaxDecisions
    /\ decisions' = Append(decisions,
                           needsWebSearch(searchTriggers, decideReply, decideMessages))
    /\ UNCHANGED << pc, runResult, pending, cancelled, turn, sessionVars, clientVars,
                    adapters, decideReply, decideMessages, initVars, mainVars, diskVars,
                    lockVars, callVars, recVars >>

\* conversations handed to the decision function
MessageLists ==
    { << >>,
      << Message("user", "what's the weather in Madrid") >>,
      << Message("user", "hola") >>,
      << Message("user", "hola"), Message("assistant", ShortPlain),
         Message("user", "Any NEWS?") >> }

(***************************************************************************)
(* VertexClient called from several goroutines.                            *)
(***************************************************************************)
\* a goroutine entering the client: SendMessage starts at its RLock,
\* Initialize at its Lock
Caller(kind) ==
    [ kind    |-> kind,
      pc      |-> CASE kind = "SendMessage" -> "rlock"
                    [] kind = "Initialize" -> "lock"
                    [] OTHER -> "shutdown",
      seen    |-> FALSE,      \* SendMessage's local copy of c.initialized
      didSetup |-> FALSE,     \* this call ran the setup
      result  |-> "",         \* the error Initialize returned to it ("" = nil)
      sent    |-> "no",       \* SendMessage past its Initialize: no, yes (c.httpClient.Do
                              \* was called), failed (no request was built), panic
      transport |-> 0 ]       \* the c.httpClient its request was handed to

\* Initialize when it does not look at c.initialized under the lock
AlreadyInitialized_Unchecked(flag) == FALSE

\* Initialize: if c.initialized { return nil }
AlreadyInitialized(flag) == flag

\* the error SendMessage and Initialize return for a failed setup
SetupError(kind, outcome) ==
    IF outcome = "" THEN ""
    ELSE IF kind = "SendMessage" THEN "failed to initialize client: " \o outcome
    ELSE outcome

\* the remaining steps of the harness leave the session alone
ClientFrame ==
    UNCHANGED << pc, runResult, pending, cancelled, turn, sessionVars, clientVars, adapters,
                 decideReply, decideMessages, decisions, initVars, mainVars, diskVars,
                 callVars, recVars >>

\* SendMessage: c.mu.RLock()
SendMessageRLock(c) ==
    /\ pc = "clients"
    /\ callers[c].pc = "rlock"
    /\ mu.writer = 0
    /\ mu' = [mu EXCEPT !.readers = @ + 1]
    /\ callers' = [callers EXCEPT ![c].pc = "rlocked"]
    /\ UNCHANGED << initialized, setups, httpClient >>
    /\ ClientFrame

\* SendMessage: initialized := c.initialized; c.mu.RUnlock()
SendMessageRUnlock(c) ==
    /\ pc = "clients"
    /\ callers[c].pc = "rlocked"
    /\ mu' = [mu EXCEPT !.readers = @ - 1]
    /\ callers' = [callers EXCEPT ![c].seen = initialized, ![c].pc = "checked"]
    /\ UNCHANGED << initialized, setups, httpClient >>
    /\ ClientFrame

\* SendMessage: if !initialized, call Initialize; otherwise go on to the request
SendMessageCheck(c) ==
    /\ pc = "clients"
    /\ callers[c].pc = "checked"
    /\ callers' = [callers EXCEPT ![c].pc = IF callers[c].seen THEN "returned" ELSE "lock"]
    /\ UNCHANGED << mu, initialized, setups, httpClient >>
    /\ ClientFrame

\* Initialize: c.mu.Lock()
InitializeLock(c) ==
    /\ pc = "clients"
    /\ callers[c].pc = "lock"
    /\ mu.writer = 0
    /\ mu.readers = 0
    /\ mu' = [mu EXCEPT !.writer = c]
    /\ callers' = [callers EXCEPT ![c].pc = "locked"]
    /\ UNCHANGED << initialized, setups, httpClient >>
    /\ ClientFrame

\* Initialize under the lock: return nil if the client is initialized, else
\* run the setup
InitializeCheck(c) ==
    /\ pc = "clients"
    /\ callers[c].pc = "locked"
    /\ IF AlreadyInitialized(initialized)
       THEN /\ callers' = [callers EXCEPT ![c].pc = "returned"]
            /\ mu' = [mu EXCEPT !.writer = 0]
       ELSE /\ callers' = [callers EXCEPT ![c].pc = "setup"]
            /\ UNCHANGED mu
    /\ UNCHANGED << initialized, setups, httpClient >>
    /\ ClientFrame

\* Initialize: the authentication check, the credentials, the project and the
\* HTTP client, which is stored in c.httpClient when all of them succeeded;
\* the deferred Unlock runs at the return of a failed setup
InitializeSetup(c, outcome) ==
    /\ pc = "clients"
    /\ callers[c].pc = "setup"
    /\ mu.writer = c
    /\ IF outcome = ""
       THEN /\ httpClient' = setups + 1
            /\ callers' = [callers EXCEPT ![c].pc = "assigned"]
            /\ UNCHANGED mu
       ELSE /\ callers' = [callers EXCEPT ![c].pc = "returned",
                                          ![c].didSetup = TRUE,
                                          ![c].result = SetupError(callers[c].kind, outcome)]
            /\ mu' = [mu EXCEPT !.writer = 0]
            /\ UNCHANGED httpClient
    /\ UNCHANGED << initialized, setups >>
    /\ ClientFrame

\* Initialize: c.initialized = true, return nil and the deferred Unlock
InitializeDone(c) ==
    /\ pc = "clients"
    /\ callers[c].pc = "assigned"
    /\ mu.writer = c
    /\ initialized' = TRUE
    /\ setups' = setups + 1
    /\ callers' = [callers EXCEPT ![c].pc = "returned", ![c].didSetup = TRUE]
    /\ mu' = [mu EXCEPT !.writer = 0]
    /\ UNCHANGED httpClient
    /\ ClientFrame

\* SendMessage after its check or its Initialize call: it builds the request
\* (built = FALSE: it returns an error before it has one) and hands it to
\* c.httpClient, read without the lock; a nil client panics
SendMessageSubmit(c, built) ==
    /\ pc = "clients"
    /\ callers[c].kind = "SendMessage"
    /\ callers[c].pc = "returned"
    /\ callers[c].result = ""
    /\ callers[c].sent = "no"
    /\ callers' = [callers EXCEPT ![c].sent = IF ~built THEN "failed"
                                             ELSE IF httpClient = 0 THEN "panic"
                                             ELSE "yes",
                                  ![c].transport = IF built THEN httpClient ELSE 0]
    /\ UNCHANGED << mu, initialized, setups, httpClient >>
    /\ ClientFrame

\* Shutdown setting the client to nil as well
TransportAfterShutdown_Cleared(client) == 0

\* c.httpClient after Shutdown: it is not assigned to
TransportAfterShutdown(client) == client

\* VertexClient.Shutdown: Lock, c.initialized = false, Unlock
ClientShutdown(c) ==
    /\ pc = "clients"
    /\ callers[c].pc = "shutdown"
    /\ mu.writer = 0
    /\ mu.readers = 0
    /\ initialized' = FALSE
    /\ httpClient' = TransportAfterShutdown(httpClient)
    /\ callers' = [callers EXCEPT ![c].pc = "returned"]
    /\ UNCHANGED << mu, setups >>
    /\ ClientFrame

(***************************************************************************)
(* Specifications.                                                         *)
(***************************************************************************)
Next ==
    \/ \E failure \in InitFailures, found \in BOOLEAN : Initialize(failure, found)
    \/ \E closeFails \in BOOLEAN, removeFails \in BOOLEAN : Shutdown(closeFails, removeFails)
    \/ \E line \in Lines : TypeLine(line)
    \/ Signal
    \/ LoopSelect
    \/ \E err \in { "ErrInterrupt", "EOF", "other" } : ReadlineFails(err)
    \/ ReadRecord
    \/ ReadTestMicrophone
    \/ ReadTestTTS
    \/ ReadToggle
    \/ ReadQuit
    \/ ReadEmpty
    \/ ReadUnknown
    \/ \E outcome \in AnyRecorderOutcomes : RecordDone(outcome)
    \/ \E run \in BackendRuns :
           TranscribeDone(TranscribeOf[run].err # "", TranscribeOf[run].text)
    \/ \E outcome \in AnyClientOutcomes(Replies) : PrimaryDone(outcome)
    \/ \E outcome \in AnyClientOutcomes(EnhancedReplies) : EnhancedDone(outcome)
    \/ \E failed \in BOOLEAN : SpeakDone(failed)

\* the program as built
Spec == Init /\ [][Next]_vars

\* the program as built, with main scheduled: once its select has a case
\* that is ready, the signal or the done context, main goes on to Shutdown
SpecMain ==
    /\ Init
    /\ [][Next]_vars
    /\ WF_vars(\E closeFails \in BOOLEAN, removeFails \in BOOLEAN :
                   Shutdown(closeFails, removeFails))

\* the session with its recorder, lookup and inference client replaced by
\* arbitrary implementations of the same signatures
InitIface ==
    /\ pc = "init"
    /\ runResult = "running"
    /\ pending = << >>
    /\ cancelled = FALSE
    /\ ttsEnabled \in BOOLEAN
    /\ ttsPresent = FALSE
    /\ AudioFilePath = ""
    /\ autoSearchEnabled \in BOOLEAN
    /\ searchTriggers = triggerPatterns
    /\ adapters = "any"
    /\ turn = NoTurn
    /\ initErr = ""
    /\ mainPc = "select"
    /\ released = << >>
    /\ errs = << >>
    /\ shutdownResult = "pending"
    /\ files = { }
    /\ transcribed = { }
    /\ clock = 0
    /\ decideReply = ""
    /\ decideMessages = << >>
    /\ decisions = << >>
    /\ NoCallers
    /\ call = NoCall
    /\ rec = NoRecording

SpecIface == InitIface /\ [][Next]_vars

\* a client on which the decision function is called MaxDecisions times
InitDecide ==
    /\ pc = "harness"
    /\ runResult = "running"
    /\ pending = << >>
    /\ cancelled = FALSE
    /\ ttsEnabled = FALSE
    /\ ttsPresent = FALSE
    /\ AudioFilePath = ""
    /\ autoSearchEnabled \in BOOLEAN
    /\ searchTriggers = triggerPatterns
    /\ adapters = "builtin"
    /\ turn = NoTurn
    /\ initErr = ""
    /\ mainPc = "select"
    /\ released = << >>
    /\ errs = << >>
    /\ shutdownResult = "pending"
    /\ files = { }
    /\ transcribed = { }
    /\ clock = 0
    /\ decideReply \in Replies
    /\ decideMessages \in MessageLists
    /\ decisions = << >>
    /\ NoCallers
    /\ call = NoCall
    /\ rec = NoRecording

NextDecide == CallNeedsWebSearch

SpecDecide == InitDecide /\ [][NextDecide]_vars

\* MaxCallers goroutines call SendMessage or Initialize on one client that
\* has not been initialized
InitClients ==
    /\ pc = "clients"
    /\ runResult = "running"
    /\ pending = << >>
    /\ cancelled = FALSE
    /\ ttsEnabled = FALSE
    /\ ttsPresent = FALSE
    /\ AudioFilePath = ""
    /\ autoSearchEnabled = TRUE
    /\ searchTriggers = triggerPatterns
    /\ adapters = "builtin"
    /\ turn = NoTurn
    /\ initErr = ""
    /\ mainPc = "select"
    /\ released = << >>
    /\ errs = << >>
    /\ shutdownResult = "pending"
    /\ files = { }
    /\ transcribed = { }
    /\ clock = 0
    /\ decideReply = ""
    /\ decideMessages = << >>
    /\ decisions = << >>
    /\ callers \in [1..MaxCallers -> { Caller(kind) : kind \in CallKinds }]
    /\ mu = [writer |-> 0, readers |-> 0]
    /\ initialized = FALSE
    /\ setups = 0
    /\ httpClient = 0
    /\ call = NoCall
    /\ rec = NoRecording

NextClients ==
    \E c \in 1..MaxCallers :
        \/ SendMessageRLock(c)
        \/ SendMessageRUnlock(c)
        \/ SendMessageCheck(c)
        \/ InitializeLock(c)
        \/ InitializeCheck(c)
        \/ \E outcome \in SetupOutcomes : InitializeSetup(c, outcome)
        \/ InitializeDone(c)
        \/ \E built \in BOOLEAN : SendMessageSubmit(c, built)

SpecClients == InitClients /\ [][NextClients]_vars

\* MaxCallers goroutines call SendMessage, Initialize or Shutdown on one client,
\* which is new or has been initialized by an earlier call
InitTransport ==
    /\ pc = "clients"
    /\ runResult = "running"
    /\ pending = << >>
    /\ cancelled = FALSE
    /\ ttsEnabled = FALSE
    /\ ttsPresent = FALSE
    /\ AudioFilePath = ""
    /\ autoSearchEnabled = TRUE
    /\ searchTriggers = triggerPatterns
    /\ adapters = "builtin"
    /\ turn = NoTurn
    /\ initErr = ""
    /\ mainPc = "select"
    /\ released = << >>
    /\ errs = << >>
    /\ shutdownResult = "pending"
    /\ files = { }
    /\ transcribed = { }
    /\ clock = 0
    /\ decideReply = ""
    /\ decideMessages = << >>
    /\ decisions = << >>
    /\ callers \in [1..MaxCallers -> { Caller(kind) : kind \in CallKinds \cup { "Shutdown" } }]
    /\ mu = [writer |-> 0, readers |-> 0]
    /\ \E before \in 0..1 :
         /\ initialized = (before = 1)
         /\ setups = before
         /\ httpClient = before
    /\ call = NoCall
    /\ rec = NoRecording

NextTransport ==
    \/ NextClients
    \/ \E c \in 1..MaxCallers : ClientShutdown(c)

SpecTransport == InitTransport /\ [][NextTransport]_vars

(***************************************************************************)
(* The functions of the pipeline called on their own.                      *)
(***************************************************************************)
\* lines the transcription backend writes
BackendLines ==
    { "[00:00:00.000 --> 00:00:05.000]", "  hola Bobo ", "qué  tal",
      "whisper_print_timings: load time = 1 ms", "[BLANK_AUDIO]", "" }

RECURSIVE OutputsOf(_)
\* the outputs of n backend lines, each ended by a newline
OutputsOf(n) ==
    IF n = 0 THEN { "" }
    ELSE { line \o "\n" \o rest : line \in BackendLines, rest \in OutputsOf(n - 1) }

\* what the backend can have left in the sibling .txt file
TxtFiles ==
    { NoTxtFile,
      [exists |-> TRUE, data |-> ""],
      [exists |-> TRUE, data |-> "hola Bobo\n"],
      [exists |-> TRUE, data |-> "[00:00:00.000 --> 00:00:05.000]\nhola Bobo\n"] }

\* the runs of the backend Transcribe is called on
TranscribeInputs ==
    { [audio |-> a, exitOk |-> ok, output |-> out, txt |-> txt] :
        a \in BOOLEAN, ok \in BOOLEAN,
        out \in UNION { OutputsOf(n) : n \in 0..MaxLines }, txt \in TxtFiles }

\* characters of the texts spoken
SpeakChars == { "a", "á", "*", "_", "@", "°", "€", " ", "\n", "." }

RECURSIVE TextsOf(_)
\* the texts of n characters
TextsOf(n) ==
    IF n = 0 THEN { "" }
    ELSE { ch \o rest : ch \in SpeakChars, rest \in TextsOf(n - 1) }

\* the texts Speak is called on, with a command that fails or not
SpeakInputs ==
    { [text |-> text, runFails |-> fails] :
        text \in UNION { TextsOf(n) : n \in 0..MaxTextLen }, fails \in BOOLEAN }

\* results a lookup returns
SampleResults ==
    { [Title |-> "Tiempo en Madrid", Snippet |-> "Soleado, 21 grados", Source |-> "aemet.es"],
      [Title |-> "Real Madrid 2-1", Snippet |-> "Gol en el minuto 90", Source |-> "marca.com"],
      [Title |-> "", Snippet |-> "", Source |-> ""] }

RECURSIVE ResultsOf(_)
\* the result lists of n results
ResultsOf(n) ==
    IF n = 0 THEN { << >> }
    ELSE { << result >> \o rest : result \in SampleResults, rest \in ResultsOf(n - 1) }

\* the lookups formatSearchResults is called on
FormatInputs ==
    { [Results |-> results, Error |-> ""] :
        results \in UNION { ResultsOf(n) : n \in 0..MaxSnippets } }

\* phrases of the messages a query is extracted from
QueryWords ==
    { "weather", "tiempo en Madrid", "Real Madrid", "partido", "last", "NEWS", "noticias",
      "bitcoin", "precio", "Hola Bobo" }

RECURSIVE MessagesOf(_)
\* the messages of n phrases
MessagesOf(n) ==
    IF n = 1 THEN QueryWords
    ELSE { word \o " " \o rest : word \in QueryWords, rest \in MessagesOf(n - 1) }

\* the latest user messages extractSearchQuery is called on
QueryInputs == UNION { MessagesOf(n) : n \in 1..MaxWords }

\* the calls of createEnhancedResponse
EnhanceInputs ==
    { [messages |-> messages, initialResponse |-> initialResponse,
       searchQuery |-> searchQuery, searchResults |-> searchResults] :
        messages \in MessageLists, initialResponse \in { ShortPlain, ShortDisclaimer },
        searchQuery \in { "weather today Madrid", "latest news" },
        searchResults \in { in \in FormatInputs : Len(in.Results) <= 1 } }

\* configured paths of the transcription backend: none, the default, a
\* command found through PATH, a file elsewhere
ConfiguredPaths ==
    { "", "./work/repos/whisper.cpp/build/bin/whisper-cli", "whisper-cpp", "/opt/whisper/main" }

\* the commands whose --help may end with status zero on a machine
HelpCandidates ==
    { "whisper-cpp", "/opt/whisper/main", searchPaths[1], searchPaths[5], searchPaths[8] }

\* the machines NewWhisperCppTranscriber is called on: a command with a
\* directory part that runs is a file there is; a name found through PATH
\* need not be a file of the working directory
DiscoveryInputs ==
    { [WhisperCppPath |-> path, helps |-> helps,
       existing |-> { h \in helps : Contains(h, "/") } \cup others] :
        path \in ConfiguredPaths, helps \in SUBSET HelpCandidates,
        others \in SUBSET { "/opt/whisper/main", "whisper-cpp" } }

\* the machines NewTextToSpeech is called on
TTSInputs ==
    { [rate |-> "160", helps |-> helps] :
        helps \in SUBSET { "espeak-ng", "espeak", "festival", "say" } }

\* a call of callee on an input
Call(callee, in) == [callee |-> callee, input |-> in, output |-> "", returned |-> FALSE]

\* the calls made
Calls ==
    { Call("Transcribe", in) : in \in TranscribeInputs }
    \cup { Call("Speak", in) : in \in SpeakInputs }
    \cup { Call("formatSearchResults", in) : in \in FormatInputs }
    \cup { Call("extractSearchQuery", in) : in \in QueryInputs }
    \cup { Call("createEnhancedResponse", in) : in \in EnhanceInputs }
    \cup { Call("NewWhisperCppTranscriber", in) : in \in DiscoveryInputs }
    \cup { Call("NewTextToSpeech", in) : in \in TTSInputs }

\* call.callee is about to be called on call.input
CallEnabled(callee) ==
    /\ pc = "calls"
    /\ call.callee = callee
    /\ ~call.returned

\* the remaining variables of a call
CallFrame ==
    UNCHANGED << pc, runResult, pending, cancelled, turn, sessionVars, clientVars, adapters,
                 decideReply, decideMessages, decisions, initVars, mainVars, diskVars,
                 lockVars, recVars >>

\* WhisperCppTranscriber.Transcribe
CallTranscribe ==
    /\ CallEnabled("Transcribe")
    /\ call' = [call EXCEPT !.output = Transcribe(call.input), !.returned = TRUE]
    /\ CallFrame

\* SystemTTS.Speak
CallSpeak ==
    /\ CallEnabled("Speak")
    /\ call' = [call EXCEPT !.output = Speak(call.input), !.returned = TRUE]
    /\ CallFrame

\* SmartClient.formatSearchResults
CallFormatSearchResults ==
    /\ CallEnabled("formatSearchResults")
    /\ call' = [call EXCEPT !.output = formatSearchResults(call.input), !.returned = TRUE]
    /\ CallFrame

\* SmartClient.extractSearchQuery; the reply of the model is not looked at
CallExtractSearchQuery ==
    /\ CallEnabled("extractSearchQuery")
    /\ call' = [call EXCEPT !.output = extractSearchQuery(call.input, ""),
                            !.returned = TRUE]
    /\ CallFrame

\* SmartClient.createEnhancedResponse, to its inference call
CallCreateEnhancedResponse ==
    /\ CallEnabled("createEnhancedResponse")
    /\ call' = [call EXCEPT !.output = createEnhancedResponse(call.input.messages,
                                           call.input.initialResponse,
                                           call.input.searchQuery,
                                           call.input.searchResults),
                            !.returned = TRUE]
    /\ CallFrame

\* NewWhisperCppTranscriber
CallNewWhisperCppTranscriber ==
    /\ CallEnabled("NewWhisperCppTranscriber")
    /\ call' = [call EXCEPT !.output = NewWhisperCppTranscriber(call.input.WhisperCppPath,
                                           call.input.helps, call.input.existing),
                            !.returned = TRUE]
    /\ CallFrame

\* NewTextToSpeech
CallNewTextToSpeech ==
    /\ CallEnabled("NewTextToSpeech")
    /\ call' = [call EXCEPT !.output = NewTextToSpeech(call.input.rate, call.input.helps),
                            !.returned = TRUE]
    /\ CallFrame

\* one function of the pipeline is called on one input
InitCalls ==
    /\ pc = "calls"
    /\ runResult = "running"
    /\ pending = << >>
    /\ cancelled = FALSE
    /\ ttsEnabled = FALSE
    /\ ttsPresent = FALSE
    /\ AudioFilePath = ""
    /\ autoSearchEnabled = TRUE
    /\ searchTriggers = triggerPatterns
    /\ adapters = "builtin"
    /\ turn = NoTurn
    /\ initErr = ""
    /\ mainPc = "select"
    /\ released = << >>
    /\ errs = << >>
    /\ shutdownResult = "pending"
    /\ files = { }
    /\ transcribed = { }
    /\ clock = 0
    /\ decideReply = ""
    /\ decideMessages = << >>
    /\ decisions = << >>
    /\ NoCallers
    /\ call \in Calls
    /\ rec = NoRecording

NextCalls ==
    \/ CallTranscribe
    \/ CallSpeak
    \/ CallFormatSearchResults
    \/ CallExtractSearchQuery
    \/ CallCreateEnhancedResponse
    \/ CallNewWhisperCppTranscriber
    \/ CallNewTextToSpeech

SpecCalls == InitCalls /\ [][NextCalls]_vars

(***************************************************************************)
(* AudioRecorder.Cleanup called repeatedly on one recorder.                *)
(***************************************************************************)

\* Cleanup clearing the path field whatever os.Remove returns
Cleanup_ClearsAlways(path, onDisk, removeFails) ==
    IF NamesRecording(path)
    THEN IF path \in onDisk /\ removeFails
         THEN [AudioFilePath |-> "", files |-> onDisk, err |-> "failed to remove audio file"]
         ELSE [AudioFilePath |-> "", files |-> onDisk \ { path }, err |-> ""]
    ELSE [AudioFilePath |-> path, files |-> onDisk, err |-> ""]

\* Cleanup on the path field and the files on disk: os.Remove removes the
\* file, or finds none, or (removeFails) fails on the file that is there
Cleanup(path, onDisk, removeFails) ==
    IF NamesRecording(path)
    THEN IF path \in onDisk /\ removeFails
         THEN [AudioFilePath |-> path, files |-> onDisk, err |-> "failed to remove audio file"]
         ELSE [AudioFilePath |-> "", files |-> onDisk \ { path }, err |-> ""]
    ELSE [AudioFilePath |-> path, files |-> onDisk, err |-> ""]

\* one Cleanup call; call.input lists whether the removal was made to fail,
\* call.output what the calls returned
CallCleanup(removeFails) ==
    /\ pc = "cleanup"
    /\ Len(call.output) < MaxCleanups
    /\ \E after \in { Cleanup(AudioFilePath, files, removeFails) } :
         /\ AudioFilePath' = after.AudioFilePath
         /\ files' = after.files
         /\ transcribed' = transcribed \cap after.files
         /\ call' = [call EXCEPT !.input = Append(@, removeFails),
                                 !.output = Append(@, after.err)]
    /\ UNCHANGED << pc, runResult, pending, cancelled, ttsEnabled, ttsPresent, turn,
                    clientVars, adapters, decideReply, decideMessages, decisions, initVars,
                    mainVars, clock, lockVars, recVars >>

\* a recorder after some recordings: the path field is empty or names the
\* last one, which is on disk or not, as earlier ones may be
InitCleanup ==
    /\ pc = "cleanup"
    /\ runResult = "running"
    /\ pending = << >>
    /\ cancelled = FALSE
    /\ ttsEnabled = FALSE
    /\ ttsPresent = FALSE
    /\ AudioFilePath \in { "" } \cup { ArtifactPath(n) : n \in 0..2 }
    /\ autoSearchEnabled = TRUE
    /\ searchTriggers = triggerPatterns
    /\ adapters = "builtin"
    /\ turn = NoTurn
    /\ initErr = ""
    /\ mainPc = "select"
    /\ released = << >>
    /\ errs = << >>
    /\ shutdownResult = "pending"
    /\ files \in SUBSET { ArtifactPath(n) : n \in 0..2 }
    /\ transcribed = { }
    /\ clock = 2
    /\ decideReply = ""
    /\ decideMessages = << >>
    /\ decisions = << >>
    /\ NoCallers
    /\ call = [callee |-> "Cleanup", input |-> << >>, output |-> << >>, returned |-> FALSE]
    /\ rec = NoRecording

NextCleanup == \E removeFails \in BOOLEAN : CallCleanup(removeFails)

SpecCleanup == InitCleanup /\ [][NextCleanup]_vars

(***************************************************************************)
(* One RecordAudio call: the calling goroutine in its select loop, the     *)
(* goroutine it starts, the ffmpeg child of that goroutine, the channel    *)
(* recordingDone between them, the context of the call and the clock.      *)
(***************************************************************************)

\* make(chan error, 1): the capacity of recordingDone
ChanCap == 1

\* a channel without a buffer: a send never finds room
HasRoom_Unbuffered(buffer) == FALSE

\* a send finds room in the buffer of recordingDone
HasRoom(buffer) == Len(buffer) < ChanCap

\* seconds after which the context of the child expires
RecordTimeout(durationSeconds) == durationSeconds + 2

\* the other variables while a recording is looked at on its own
RecorderFrame ==
    UNCHANGED << pc, runResult, pending, cancelled, turn, sessionVars, clientVars, adapters,
                 decideReply, decideMessages, decisions, initVars, mainVars, diskVars,
                 lockVars, callVars >>

\* RecordAudio makes the channel and starts the goroutine, which starts the
\* child on a context derived from the one of the call
RecordAudioStart ==
    /\ pc = "recorder"
    /\ rec.caller = "idle"
    /\ rec' = [rec EXCEPT !.caller = "select", !.goroutine = "running",
                          !.child = StartChild(rec.ctxDone)]
    /\ RecorderFrame

\* the context of the call is cancelled, before or after RecordAudio returns
CancelContext ==
    /\ pc = "recorder"
    /\ ~rec.ctxDone
    /\ rec' = [rec EXCEPT !.ctxDone = TRUE]
    /\ RecorderFrame

\* a second passes while the child runs
Second ==
    /\ pc = "recorder"
    /\ rec.child = "running"
    /\ rec.elapsed < RecordTimeout(rec.durationSeconds)
    /\ rec' = [rec EXCEPT !.elapsed = @ + 1]
    /\ RecorderFrame

\* case <-progressTicker.C: one tick a second, a progress line
ProgressTick ==
    /\ pc = "recorder"
    /\ rec.caller = "select"
    /\ rec.ticks < rec.elapsed
    /\ rec' = [rec EXCEPT !.ticks = @ + 1]
    /\ RecorderFrame

\* the child ends by itself: at once when it fails, after the duration when
\* it has recorded; cmd.Run returns
FFmpegExit(run) ==
    /\ pc = "recorder"
    /\ rec.child = "running"
    /\ run.status = "exit0" => rec.elapsed >= rec.durationSeconds
    /\ rec' = [rec EXCEPT !.child = "over", !.goroutine = "sending",
                          !.result = recordWithFFmpeg(run)]
    /\ RecorderFrame

\* the context of the child is done, cancelled or expired: the child is
\* killed, or was never started, and cmd.Run returns
FFmpegKilled ==
    /\ pc = "recorder"
    /\ \/ rec.child = "refused"
       \/ /\ rec.child = "running"
          /\ rec.ctxDone \/ rec.elapsed >= RecordTimeout(rec.durationSeconds)
    /\ \E run \in (IF rec.child = "refused" THEN { RefusedRun } ELSE KilledRuns) :
         rec' = [rec EXCEPT !.child = "over", !.goroutine = "sending",
                            !.result = recordWithFFmpeg(run)]
    /\ RecorderFrame

\* the send of the goroutine can go on: there is room in the channel or a
\* receiver waiting
SendReady == HasRoom(rec.recordingDone) \/ rec.caller = "select"

\* recordingDone <- result, into the buffer; the goroutine ends
GoSend ==
    /\ pc = "recorder"
    /\ rec.goroutine = "sending"
    /\ HasRoom(rec.recordingDone)
    /\ rec' = [rec EXCEPT !.recordingDone = Append(@, rec.result), !.goroutine = "done"]
    /\ RecorderFrame

\* case err := <-recordingDone: from the buffer, or from the goroutine when
\* it waits to send; RecordAudio returns (true, nil) or (false, err)
SelectReceive ==
    /\ pc = "recorder"
    /\ rec.caller = "select"
    /\ rec.recordingDone # << >> \/ rec.goroutine = "sending"
    /\ LET err == IF rec.recordingDone # << >> THEN Head(rec.recordingDone)
                  ELSE rec.result
       IN  rec' = [rec EXCEPT !.caller = "returned",
                              !.received = IF err = "" THEN "nil" ELSE "err",
                              !.success = (RecordAudio(err) = "ok"),
                              !.err = IF err # "" THEN "recording failed" ELSE "",
                              !.recordingDone = IF rec.recordingDone # << >>
                                                THEN Tail(@) ELSE @,
                              !.goroutine = IF rec.recordingDone # << >>
                                            THEN @ ELSE "done"]
    /\ RecorderFrame

\* case <-ctx.Done(): RecordAudio returns (false, ctx.Err())
SelectCtxDone ==
    /\ pc = "recorder"
    /\ rec.caller = "select"
    /\ rec.ctxDone
    /\ rec' = [rec EXCEPT !.caller = "returned", !.success = FALSE,
                          !.err = "context canceled"]
    /\ RecorderFrame

\* RecordAudio is called for a duration, on a context that may be done
InitRecorder ==
    /\ pc = "recorder"
    /\ runResult = "running"
    /\ pending = << >>
    /\ cancelled = FALSE
    /\ ttsEnabled = FALSE
    /\ ttsPresent = FALSE
    /\ AudioFilePath = ""
    /\ autoSearchEnabled = TRUE
    /\ searchTriggers = triggerPatterns
    /\ adapters = "builtin"
    /\ turn = NoTurn
    /\ initErr = ""
    /\ mainPc = "select"
    /\ released = << >>
    /\ errs = << >>
    /\ shutdownResult = "pending"
    /\ files = { }
    /\ transcribed = { }
    /\ clock = 0
    /\ decideReply = ""
    /\ decideMessages = << >>
    /\ decisions = << >>
    /\ NoCallers
    /\ call = NoCall
    /\ \E durationSeconds \in 1..MaxDuration, done \in BOOLEAN :
         rec = [NoRecording EXCEPT !.durationSeconds = durationSeconds, !.ctxDone = done]

NextRecorder ==
    \/ RecordAudioStart
    \/ CancelContext
    \/ Second
    \/ ProgressTick
    \/ \E run \in FFmpegRuns : FFmpegExit(run)
    \/ FFmpegKilled
    \/ GoSend
    \/ SelectReceive
    \/ SelectCtxDone

\* time passes, a child whose context is done is killed and waited for, and
\* a goroutine that can send is scheduled
SpecRecorder ==
    /\ InitRecorder
    /\ [][NextRecorder]_vars
    /\ WF_vars(Second)
    /\ WF_vars(FFmpegKilled)
    /\ WF_vars(GoSend)

(***************************************************************************)
(* Properties.                                                             *)
(***************************************************************************)
\* the primary reply has come back with a text and SendMessage has acted on it
PrimaryExamined == turn.inferenceCalls >= 1 /\ turn.initialResponse # ""

\* the reply matches a trigger phrase, whatever the casing of either
MatchesSomeTrigger(response) ==
    \E k \in 1..Len(triggerPatterns) :
        Contains(ToLower(response), ToLower(triggerPatterns[k]))

\* the latest user message holds a recency keyword, whatever its casing
HoldsRecencyKeyword(messages) ==
    /\ Len(messages) > 0
    /\ \E k \in 1..Len(currentIndicators) :
          Contains(ToLower(messages[Len(messages)].Content), currentIndicators[k])

\* C1: no command aborts the process: Run ends only by returning, on quit,
\* end of input or interrupt of the reader (nil), on a reader error, or on
\* cancellation. Violated: a primary reply shorter than 100 bytes on a turn
\* that warrants augmentation panics in SendMessage.
C1_NoCommandAbortsProcess == runResult \in { "running", "nil", "readErr", "ctxErr" }

\* C2: with the engine enabled, a primary reply containing "I don't have
\* access to current information" to the user message "what's the weather in
\* Madrid" makes SendMessage extract "weather today Madrid", make exactly one
\* second inference call and return a reply. Violated: the phrase alone, 42
\* bytes, panics before the extraction.
C2_WeatherMadridRoundTrip ==
    ( /\ autoSearchEnabled
      /\ PrimaryExamined
      /\ turn.messages = << Message("user", "what's the weather in Madrid") >>
      /\ Contains(turn.initialResponse, "I don't have access to current information") )
    => /\ runResult # "panic"
       /\ turn.searchQuery = "weather today Madrid"
       /\ turn.inferenceCalls = 2
       /\ (turn.returned => turn.response # "" /\ turn.responseErr = "")

\* C3: one SendMessage makes at most two inference calls, the second only
\* after the primary call gave a reply and augmentation was attempted, and
\* once the second call has returned no further call follows: its reply is
\* not examined.
C3_AtMostOneAugmentation ==
    /\ turn.inferenceCalls <= 2
    /\ (turn.inferenceCalls = 2 =>
            ~turn.primaryErr /\ turn.initialResponse # "" /\ turn.attempted)
    /\ (turn.enhanced # "none" =>
            turn.inferenceCalls = 2 /\ turn.returned /\ pc \notin { "inference", "enhancing" })

\* an augmented reply that itself matches a trigger, on a turn whose reply
\* and message both call for augmentation, was returned after two calls
C3_Witness ==
    /\ turn.inferenceCalls = 2
    /\ turn.returned
    /\ turn.response = Disclaimer100
    /\ MatchesSomeTrigger(turn.initialResponse)
    /\ HoldsRecencyKeyword(turn.messages)

\* C4: when the second inference call returns an error or an empty text,
\* SendMessage returns the primary reply with a nil error; when it returns a
\* non-empty text, SendMessage returns exactly that text.
C4_EnhancedFallback ==
    /\ (turn.enhanced \in { "err", "empty" } =>
            turn.returned /\ turn.response = turn.initialResponse /\ turn.responseErr = "")
    /\ (turn.enhanced = "text" =>
            turn.returned /\ turn.response = turn.enhancedText /\ turn.responseErr = "")

\* the second call failed and the primary reply was returned
C4_Witness ==
    /\ turn.enhanced = "err"
    /\ turn.returned
    /\ turn.response = turn.initialResponse
    /\ turn.response # ""

\* C5: when the lookup yields no snippet or reports an error, no second
\* inference call is made and SendMessage returns the primary reply with a
\* nil error.
C5_NoSnippetsKeepsPrimary ==
    (turn.attempted /\ (turn.snippets = 0 \/ turn.lookupFailed))
    => /\ turn.inferenceCalls = 1
       /\ turn.enhanced = "none"
       /\ turn.returned
       /\ turn.response = turn.initialResponse
       /\ turn.responseErr = ""

\* a lookup without snippets and without error, after which the primary
\* reply was returned
C5_Witness ==
    /\ turn.attempted
    /\ turn.snippets = 0
    /\ ~turn.lookupFailed
    /\ turn.returned
    /\ turn.response = turn.initialResponse

\* C6: with the engine enabled, SendMessage runs query extraction and lookup
\* exactly when the primary reply matches a trigger phrase or the latest user
\* message holds a recency keyword. Violated: on a reply shorter than 100
\* bytes the signals fire and SendMessage panics before the extraction.
C6_AttemptIffSignal ==
    (autoSearchEnabled /\ PrimaryExamined)
    => (turn.attempted <=>
            (MatchesSomeTrigger(turn.initialResponse) \/ HoldsRecencyKeyword(turn.messages)))

C8_NotOkSkipsPipeline ==
    (turn.command \in { "r", "l" } /\ turn.recordResult = "notok")
    => /\ pc = "select"
       /\ runResult = "running"
       /\ turn.transcribeCalls = 0
       /\ turn.inferenceCalls = 0
       /\ turn.speakCalls = 0

\* a long recording that reported not-ok
C8_Witness ==
    /\ turn.command = "l"
    /\ turn.recordResult = "notok"
    /\ turn.recordCalls = 1

\* C9: a line is read only between commands; reading a line that trims and
\* lower-cases to "q" makes Run return nil without any adapter call; a line
\* entered while a command executes changes nothing of that command; and
\* once Run has returned nothing more happens.
C9_QuitEndsLoop ==
    [][ /\ (Len(pending') < Len(pending) => pc = "readline")
        /\ ( ( /\ Len(pending') < Len(pending)
               /\ TrimSpace(ToLower(Head(pending))) = "q" )
             => /\ pc' = "done"
                /\ runResult' = "nil"
                /\ turn'.recordCalls = 0
                /\ turn'.transcribeCalls = 0
                /\ turn'.inferenceCalls = 0
                /\ turn'.speakCalls = 0 )
        /\ (Len(pending') > Len(pending) => UNCHANGED << pc, runResult, turn >>)
        /\ (pc = "done" => UNCHANGED << pc, runResult, turn >>) ]_vars

\* a quit line, in another casing and with blanks, was entered while the
\* reply of a voice turn is being spoken
C9_Witness ==
    /\ pc = "speaking"
    /\ turn.command = "r"
    /\ pending # << >>
    /\ Head(pending) # "q"
    /\ TrimSpace(ToLower(Head(pending))) = "q"

\* a stage of the current command fails in this step
StageFails ==
    \/ turn.recordResult = "none" /\ turn'.recordResult = "err"
    \/ ~turn.transcribeErr /\ turn'.transcribeErr
    \/ ~turn.primaryErr /\ turn'.primaryErr
    \/ turn.enhanced = "none" /\ turn'.enhanced = "err"
    \/ ~turn.speakErr /\ turn'.speakErr

\* C10: without cancellation, a step in which recording, transcription,
\* inference or synthesis fails adds a log line and leaves Run running; but
\* for a failed second inference call, after which the primary reply is
\* kept, it takes Run back to the top of its loop.
C10_FailureIsLoggedLoopContinues ==
    [][ (~cancelled /\ turn.command \in { "r", "l", "t", "x" } /\ StageFails)
        => /\ runResult' = "running"
           /\ Len(turn'.logged) = Len(turn.logged) + 1
           /\ (turn'.enhanced # "err" => pc' = "select")
           /\ pc' \in { "select", "speaking" } ]_vars

\* a failed transcription was logged as the command's failure and Run is at
\* the top of its loop, uncancelled
C10_Witness ==
    /\ pc = "select"
    /\ runResult = "running"
    /\ ~cancelled
    /\ turn.transcribeErr
    /\ turn.logged = << "ERROR Voice command failed" >>

\* Run takes a line from the reader and dispatches on it in this step
Dispatches == pc = "readline" /\ Len(pending') < Len(pending)

\* the stages in which a command waits for a child process
ChildStages == { "recording", "transcribing", "speaking" }

\* C11: once the context of Run is cancelled, the pending read is abandoned:
\* Run takes no further line from the reader and starts no command.
\* Violated: Run looks at the context only before it calls Readline, so a
\* line that arrives while it waits there is dispatched after the
\* cancellation.
C11_NoCommandAfterCancellation ==
    [][ cancelled => ~Dispatches ]_vars

\* C12: when Shutdown has returned it has released the reader, the client
\* and the recorder, in this order, whatever the earlier releases returned;
\* its errs hold one entry for every release that failed, and it returned
\* nil exactly when none failed.
C12_ShutdownReleasesAllInOrder ==
    shutdownResult # "pending"
    => /\ [i \in 1..Len(released) |-> released[i].component]
              = << "rl", "claudeClient", "recorder" >>
       /\ Len(errs) = Cardinality({ i \in 1..Len(released) : released[i].failed })
       /\ \A i \in 1..Len(released) :
              released[i].failed
              => \E k \in 1..Len(errs) : errs[k] = ReleaseError(released[i].component)
       /\ (shutdownResult = "nil" <=> \A i \in 1..Len(released) : ~released[i].failed)

\* Shutdown went on to the client and the recorder after the reader failed to
\* close, and reported both the reader and the cleanup
C12_Witness ==
    /\ shutdownResult = "shutdown errors"
    /\ Len(released) = 3
    /\ released[1].failed
    /\ errs = << "readline shutdown", "recorder cleanup" >>

\* C13: RecordAudio is called only when no artifact of an earlier recording
\* is on disk without having been transcribed. Violated: the artifact of a
\* microphone test is never transcribed or deleted, and nothing looks for it
\* before the next recording.
C13_NoRecordingOverUnprocessedArtifact ==
    [][ turn'.recordCalls > turn.recordCalls => files \ transcribed = { } ]_vars

\* C14: once Shutdown has returned, no artifact of the session is on disk;
\* stated for sessions that ended without a signal and whose releases all
\* succeeded. Violated: nothing deletes an artifact after its transcription
\* and Cleanup removes only the file the path field names.
C14_NoArtifactAfterShutdown ==
    (shutdownResult = "nil" /\ ~cancelled) => files = { }

\* C15: RecordAudio is called only from the reader's dispatch, with no stage
\* of an earlier command in flight; Transcribe only when RecordAudio has
\* returned success; the primary inference call only when Transcribe has
\* returned a non-empty transcript, the second only during the first; and
\* Speak, in a voice turn, only with the reply SendMessage returned.
C15_StagesInSequence ==
    [][ /\ (turn'.recordCalls > turn.recordCalls
               => pc = "readline" /\ turn.child = "none" /\ turn.recordCalls = 0)
        /\ (turn'.transcribeCalls > turn.transcribeCalls
               => pc = "recording" /\ turn'.recordResult = "ok")
        /\ ((turn'.inferenceCalls > turn.inferenceCalls /\ turn.inferenceCalls = 0)
               => /\ pc = "transcribing"
                  /\ ~turn'.transcribeErr
                  /\ Len(turn'.messages) = 1
                  /\ turn'.messages[1].Content # "")
        /\ ((turn'.inferenceCalls > turn.inferenceCalls /\ turn.inferenceCalls > 0)
               => pc = "inference" /\ turn'.initialResponse # "")
        /\ ((turn'.speakCalls > turn.speakCalls /\ turn'.command # "x")
               => /\ pc \in { "inference", "enhancing" }
                  /\ turn'.returned
                  /\ turn'.response # ""
                  /\ turn'.speakText = turn'.response) ]_vars

\* a long voice turn went through capture, transcription and both inference
\* calls and is speaking its reply
C15_Witness ==
    /\ pc = "speaking"
    /\ turn.command = "l"
    /\ turn.recordResult = "ok"
    /\ turn.transcribeCalls = 1
    /\ turn.inferenceCalls = 2

\* C16: Shutdown, whose last release is the recorder's Cleanup, does not run
\* while a record-and-process command is in RecordAudio or Transcribe.
\* Violated: on a signal main calls Shutdown without waiting for Run, which
\* is still inside the command.
C16_CleanupNotDuringCommand ==
    [][ (shutdownResult = "pending" /\ shutdownResult' # "pending")
        => ~(pc \in { "recording", "transcribing" } /\ turn.command \in { "r", "l" }) ]_vars

\* the Warn and Error lines a failed Speak gives
SpeakFailureLogs == { "ERROR TTS test failed", "WARN TTS failed" }

\* C17: an Initialize that looks for a synthesis backend and finds none
\* turns the TTS flag off and fails only if the reader fails; and as long as
\* v.tts is nil, as that leaves it, no Speak call is made, no synthesis
\* child runs and no command logs a speech failure.
C17_MissingBackendIsHarmless ==
    [][ /\ ( ( /\ pc = "init"
                /\ ttsEnabled
                /\ ~ttsPresent'
                /\ initErr' \in { "", "failed to initialize readline" } )
             => /\ ~ttsEnabled'
                /\ (initErr' = "" => pc' = "select") )
        /\ ( ~ttsPresent'
             => /\ turn'.speakCalls = 0
                /\ pc' # "speaking"
                /\ \A k \in 1..Len(turn'.logged) : turn'.logged[k] \notin SpeakFailureLogs ) ]_vars

\* with v.tts nil and the flag toggled on, a voice turn has returned its
\* reply without speaking
C17_Witness ==
    /\ ~ttsPresent
    /\ ttsEnabled
    /\ pc = "select"
    /\ turn.command = "r"
    /\ turn.returned
    /\ turn.response # ""
    /\ turn.speakCalls = 0

\* C18: dispatching 'x' with the TTS flag on makes exactly one Speak call,
\* with the canned sentence; with the flag off it makes none, logs nothing
\* and the loop goes on. Violated: a session that started with speech off
\* has no synthesis adapter, 's' turns only the flag on, and 'x' is then a
\* no-op.
C18_TestSpeechFollowsFlag ==
    [][ (Dispatches /\ CommandOf(Head(pending)) = "x")
        => IF ttsEnabled
           THEN turn'.speakCalls = 1 /\ turn'.speakText = testText
           ELSE turn'.speakCalls = 0 /\ turn'.logged = << >> /\ pc' = "select" ]_vars

\* C19: when the recorder child has exited with status zero and the artifact
\* is not on disk, RecordAudio returns (false, nil); it returns an error only
\* when the child failed or was stopped. Violated: recordWithFFmpeg makes the
\* missing artifact an error, which RecordAudio returns.
C19_MissingArtifactIsRecoverable ==
    /\ ( (turn.childRun.status = "exit0" /\ ~turn.childRun.file)
         => turn.recordResult = "notok" )
    /\ ( turn.recordResult = "err"
         => turn.childRun.status \in { "failed", "killed", "refused" } )

C21_SetupSucceedsAtMostOnce ==
    [][ /\ setups' <= 1
        /\ \A c \in DOMAIN callers :
              (callers[c].pc = "locked" /\ initialized)
              => /\ callers'[c].pc \in { "locked", "returned" }
                 /\ ~callers'[c].didSetup
                 /\ callers'[c].result = ""
                 /\ setups' = setups ]_vars

\* one caller has run the setup to success; another, which had found the
\* client not initialized, took the lock after it and returned nil without
\* a setup of its own
C21_Witness ==
    \E c \in DOMAIN callers, d \in DOMAIN callers :
        /\ c # d
        /\ callers[d].didSetup
        /\ callers[d].result = ""
        /\ callers[c].kind = "SendMessage"
        /\ callers[c].pc = "returned"
        /\ ~callers[c].seen
        /\ ~callers[c].didSetup
        /\ callers[c].result = ""
        /\ setups = 1

\* the commands of the switch in Run
Commands == { "r", "l", "t", "x", "s", "q" }

\* C22: dispatching a line that, trimmed and lower-cased, is empty or is none
\* of r, l, t, x, s, q calls no adapter and no client, starts no child,
\* leaves the TTS flag and the recorder's path as they are and takes Run
\* back to the top of its loop; the empty one is ignored, the other is
\* logged as unknown.
C22_OtherLinesChangeNothing ==
    [][ (Dispatches /\ TrimSpace(ToLower(Head(pending))) \notin Commands)
        => /\ turn'.recordCalls = 0
           /\ turn'.transcribeCalls = 0
           /\ turn'.inferenceCalls = 0
           /\ ~turn'.attempted
           /\ turn'.speakCalls = 0
           /\ turn'.child = "none"
           /\ ttsEnabled' = ttsEnabled
           /\ ttsPresent' = ttsPresent
           /\ AudioFilePath' = AudioFilePath
           /\ files' = files
           /\ pc' = "select"
           /\ runResult' = "running"
           /\ turn'.logged = IF \A i \in 1..Len(Head(pending)) :
                                    IsSpace(CharAt(Head(pending), i))
                             THEN << >>
                             ELSE << "WARN Unknown command" >> ]_vars

\* an unknown line was dispatched after a recording: the path of its
\* artifact is still in the recorder and speech is still on
C22_Witness ==
    /\ pc = "select"
    /\ turn.command = "hi"
    /\ turn.logged = << "WARN Unknown command" >>
    /\ AudioFilePath # ""
    /\ ttsEnabled
    /\ ttsPresent

\* C23: Initialize returns an error exactly when the transcriber, the client
\* or the reader failed to initialize, and main then exits: Run is not
\* started, no line is read and no command runs; when it returns nil, which
\* it also does when only the synthesis backend is missing, Run starts.
C23_InitFailureAborts ==
    [][ /\ ( (pc = "init" /\ pc' # "init")
             => IF initErr' # ""
                THEN /\ pc' = "initFailed"
                     /\ mainPc' = "exited"
                     /\ shutdownResult' = "pending"
                ELSE /\ pc' = "select"
                     /\ mainPc' = "select" )
        /\ ( pc = "initFailed"
             => /\ UNCHANGED << pc, pending, turn, runResult, AudioFilePath, files >>
                /\ pending = << >>
                /\ turn = NoTurn ) ]_vars

\* the client could not connect: Initialize returned its error and main
\* exited
C23_Witness ==
    /\ pc = "initFailed"
    /\ initErr = "failed to initialize Claude client"
    /\ mainPc = "exited"
    /\ pending = << >>

\* C28: once Initialize has returned, the TTS flag changes only in the step
\* that dispatches an 's', and that step sets it to its negation.
C28_FlagChangesOnlyByToggle ==
    [][ /\ ( (pc # "init" /\ ttsEnabled' # ttsEnabled)
             => Dispatches /\ TrimSpace(ToLower(Head(pending))) = "s" )
        /\ ( (Dispatches /\ TrimSpace(ToLower(Head(pending))) = "s")
             => ttsEnabled' = ~ttsEnabled ) ]_vars

\* an 's' has turned speech off in a session that has a synthesis adapter
C28_Witness ==
    /\ pc = "select"
    /\ turn.command = "s"
    /\ ~ttsEnabled
    /\ ttsPresent

\* the backend output a successful Transcribe takes its text from: the
\* output of the child, or the sibling file when that output has no text
C24_SourceUsed ==
    IF call.input.txt.exists
       /\ (IF Len(call.input.output) > 0 THEN parseWhisperOutput(call.input.output)
           ELSE "") = ""
    THEN call.input.txt.data
    ELSE call.input.output

\* C24: whatever backend output Transcribe takes its text from, the output
\* of the child or the sibling output file, no line of it that matches the
\* timestamp-range pattern occurs in the transcript returned, and the
\* transcript is the remaining text lines in their order
C24_TimestampLinesExcluded ==
    (call.callee = "Transcribe" /\ call.returned /\ call.output.err = "") =>
        LET lines == TrimmedLines(C24_SourceUsed) IN
        /\ \A k \in 1..Len(lines) :
               isTimestampLine(lines[k]) => ~Contains(call.output.text, lines[k])
        /\ call.output.text = cleanTranscription(Join(SelectSeq(lines, IsTextLine), " "))

\* C25: a backend run whose cleaned transcript is empty makes Transcribe
\* return the empty text with a nil error; the turn that got it makes no
\* inference call and no synthesis call, logs no command failure, and Run
\* goes on to the next command
C25_EmptyTranscriptEndsTurnQuietly ==
    /\ \A run \in BackendRuns :
           (run.audio /\ run.exitOk /\ TranscribeOf[run].text = "")
               => TranscribeOf[run].err = ""
    /\ ( /\ turn.transcribeCalls >= 1
         /\ pc # "transcribing"
         /\ ~turn.transcribeErr
         /\ turn.transcript = "" )
       => /\ turn.inferenceCalls = 0
          /\ turn.speakCalls = 0
          /\ turn.logged = << "WARN No speech detected" >>
          /\ pc = "select"
          /\ runResult = "running"

\* an 'r' command whose transcription came back empty has ended
C25_Witness ==
    /\ pc = "select"
    /\ turn.command = "r"
    /\ turn.transcribeCalls = 1
    /\ ~turn.transcribeErr
    /\ turn.transcript = ""
    /\ turn.inferenceCalls = 0
    /\ turn.logged = << "WARN No speech detected" >>
    /\ \E run \in BackendRuns : run.output = "[BLANK_AUDIO]\n" /\ TranscribeOf[run].text = ""

\* the text has no character of the allow-list
C26_OnlyDisallowed(text) == \A i \in 1..Len(text) : CharAt(text, i) \notin AllowedSet

\* C26: Speak called on the empty text, or on a text made only of
\* characters outside the allow-list, cleans it to the empty string, starts
\* no command and returns nil
C26_UnspeakableTextIsNoOp ==
    (call.callee = "Speak" /\ call.returned /\ C26_OnlyDisallowed(call.input.text))
        => /\ call.output.cleanText = ""
           /\ ~call.output.spawned
           /\ call.output.err = ""

\* Speak has returned from a text of three disallowed characters, with a
\* command that would have failed
C26_Witness ==
    /\ call.callee = "Speak"
    /\ call.returned
    /\ call.input = [text |-> "°*@", runFails |-> TRUE]
    /\ call.output = [cleanText |-> "", spawned |-> FALSE, arg |-> "", err |-> ""]

\* the entry the context block has for snippet i: index, title and source
\* on one line, the body on the next; an empty field shows its placeholder
C27_Entry(i, result) ==
    Itoa(i) \o ". "
    \o (IF result.Title = "" THEN "No title" ELSE result.Title)
    \o " (" \o (IF result.Source = "" THEN "Unknown source" ELSE result.Source) \o ")"
    \o "\n   " \o (IF result.Snippet = "" THEN "No description" ELSE result.Snippet)

\* C27: for a lookup that returned n >= 1 snippets the context block has
\* exactly min(n, 3) entries, separated by an empty line: the first three
\* snippets in lookup order, numbered from 1, each as index, title and
\* source followed by its body
C27_ContextHasFirstThree ==
    ( /\ call.callee = "formatSearchResults"
      /\ call.returned
      /\ Len(call.input.Results) >= 1 )
    => LET n == Len(call.input.Results)
           shown == IF n < 3 THEN n ELSE 3
           entries == Split(call.output, "\n\n")
       IN  /\ Len(entries) = shown
           /\ \A i \in 1..shown : entries[i] = C27_Entry(i, call.input.Results[i])

\* formatSearchResults has returned from a lookup of more than three snippets
C27_Witness ==
    /\ call.callee = "formatSearchResults"
    /\ call.returned
    /\ Len(call.input.Results) = 4
    /\ call.input.Results[4].Title # ""
    /\ Len(Split(call.output, "\n\n")) = 3

\* the categories in their order: the keywords of each
C29_Keywords ==
    << << "tiempo", "weather", "clima" >>,
       << "real madrid", "madrid", "partido", "match", "resultado", "fútbol", "futbol",
          "football" >>,
       << "noticias", "news", "novedades" >>,
       << "precio", "price", "bitcoin", "crypto", "bolsa" >> >>

\* category k has a keyword in the lower-cased message
C29_Matches(k, message) ==
    \E i \in 1..Len(C29_Keywords[k]) : Contains(ToLower(message), C29_Keywords[k][i])

\* query starts with prefix
C29_HasPrefix(query, prefix) ==
    Len(query) >= Len(prefix) /\ SubSeq(query, 1, Len(prefix)) = prefix

\* query is one of the queries of category k
C29_IsQueryOf(k, query) ==
    CASE k = 1 -> C29_HasPrefix(query, "weather today")
      [] k = 2 -> query \in { "Real Madrid latest match result today",
                              "Real Madrid news today", "football results today Spain" }
      [] k = 3 -> query = "latest news today"
      [] k = 4 -> query \in { "Bitcoin price today", "financial markets today" }

\* C29: the query extracted is a query of the first category, in the order
\* weather, sports, news, financial, that has a keyword in the lower-cased
\* latest user message, also when later categories match too; it is the
\* generic fallback only when no category matches
C29_FirstMatchingCategoryWins ==
    (call.callee = "extractSearchQuery" /\ call.returned)
    => LET matching == { k \in 1..4 : C29_Matches(k, call.input) } IN
       IF matching = { }
       THEN C29_HasPrefix(call.output, "current information")
       ELSE /\ C29_IsQueryOf(CHOOSE k \in matching : \A j \in matching : k <= j,
                             call.output)
            /\ ~C29_HasPrefix(call.output, "current information")

\* a message with a news keyword in capitals and a sports keyword got the
\* sports query
C29_Witness ==
    /\ call.callee = "extractSearchQuery"
    /\ call.returned
    /\ call.input = "NEWS Real Madrid"
    /\ call.output = "Real Madrid news today"

\* C30: when no category matches, the query extracted is "current
\* information about " followed by the latest user message as it was typed
C30_FallbackQuery ==
    ( /\ call.callee = "extractSearchQuery"
      /\ call.returned
      /\ \A k \in 1..4 : ~C29_Matches(k, call.input) )
    => call.output = "current information about " \o call.input

(***************************************************************************)
(* C31: the sequence createEnhancedResponse hands to its inference call is *)
(* the messages it was given, in their order, then one assistant message   *)
(* whose content is the primary reply, then one user message that carries  *)
(* the formatted snippets and the query: two messages longer than what it  *)
(* was given; the sequence of the caller is the same after the call.       *)
(***************************************************************************)
C31_EnhancedTurnIsOriginalPlusTwo ==
    (call.callee = "createEnhancedResponse" /\ call.returned) =>
        LET in == call.input
            sent == call.output.sent
            n == Len(in.messages)
        IN  /\ Len(sent) = n + 2
            /\ \A i \in 1..n : sent[i] = in.messages[i]
            /\ sent[n + 1] = [Role |-> "assistant", Content |-> in.initialResponse]
            /\ sent[n + 2].Role = "user"
            /\ Contains(sent[n + 2].Content, formatSearchResults(in.searchResults))
            /\ Contains(sent[n + 2].Content, "'" \o in.searchQuery \o "'")
            /\ call.output.messages = in.messages

\* a conversation of three messages was enhanced with one snippet
C31_Witness ==
    /\ call.callee = "createEnhancedResponse"
    /\ call.returned
    /\ Len(call.input.messages) = 3
    /\ Len(call.input.searchResults.Results) = 1
    /\ Len(call.output.sent) = 5
    /\ call.output.sent[3].Content = "Any NEWS?"

(***************************************************************************)
(* C32: every RecordAudio call builds an artifact path that differs from   *)
(* the path of the call before it.  Violated: the name carries the time to *)
(* the second, and a recording that fails at once is followed by a retry   *)
(* within the same second.                                                 *)
(***************************************************************************)
C32_RecordingPathIsFresh ==
    [][ turn'.recordCalls > turn.recordCalls =>
            (AudioFilePath # "" => AudioFilePath' # AudioFilePath) ]_vars

\* the lowest index of a non-empty set of indices
C33_First(indices) == CHOOSE i \in indices : \A j \in indices : i <= j

\* the candidates of the transcription backend in their priority order
C33_Candidates(WhisperCppPath) ==
    (IF WhisperCppPath # "" THEN << WhisperCppPath >> ELSE << >>) \o searchPaths

(***************************************************************************)
(* C33: construction of a backend selects the first candidate, the         *)
(* configured path first and then the fixed list in its order, whose       *)
(* --help run succeeds, and fails with an error and no backend when none   *)
(* does.  Violated for transcription: the configured path is tried only    *)
(* when os.Stat finds it, so a configured command that runs through PATH   *)
(* is passed over.                                                         *)
(***************************************************************************)
C33_FirstPassingCandidateIsSelected ==
    /\ (call.callee = "NewWhisperCppTranscriber" /\ call.returned) =>
          LET candidates == C33_Candidates(call.input.WhisperCppPath)
              passing == { i \in 1..Len(candidates) : candidates[i] \in call.input.helps }
          IN  IF passing = { }
              THEN call.output.transcriber = "nil" /\ call.output.err # ""
              ELSE /\ call.output.transcriber = "set"
                   /\ call.output.err = ""
                   /\ call.output.whisperCppPath = candidates[C33_First(passing)]
    /\ (call.callee = "NewTextToSpeech" /\ call.returned) =>
          LET list == systems(call.input.rate)
              passing == { i \in 1..Len(list) : list[i].command \in call.input.helps }
          IN  IF passing = { }
              THEN call.output.tts = "nil" /\ call.output.err # ""
              ELSE /\ call.output.tts = "set"
                   /\ call.output.err = ""
                   /\ call.output.command = list[C33_First(passing)].command
                   /\ call.output.args = list[C33_First(passing)].args

\* t has an Error line of Run
C34_ReportedAsError(t) ==
    \E i \in 1..Len(t.logged) : t.logged[i] = CommandErrorLog(t.command)

(***************************************************************************)
(* C34: Speak is called only while the speech flag is on.  While it is     *)
(* off no Speak call is running or has been made by the current command,   *)
(* and neither a voice turn that got its response nor the speech test is   *)
(* logged as a failed command.                                             *)
(***************************************************************************)
C34_SpeakOnlyWhileEnabled ==
    ~ttsEnabled =>
        /\ pc # "speaking"
        /\ turn.speakCalls = 0
        /\ (turn.command = "x" \/ (turn.returned /\ turn.response # ""))
              => ~C34_ReportedAsError(turn)

\* a voice turn got its response with an engine present and the flag off
C34_Witness ==
    /\ ~ttsEnabled
    /\ ttsPresent
    /\ turn.command \in { "r", "l" }
    /\ turn.returned
    /\ turn.response # ""
    /\ turn.speakCalls = 0
    /\ pc = "select"

(***************************************************************************)
(* C35: with the auto-search setting off, SmartClient.SendMessage makes    *)
(* one inference call and no more, extracts no query, runs no lookup, and  *)
(* when the call gave a text it returns that text as it is.                *)
(***************************************************************************)
C35_NoSearchWhenDisabled ==
    ~autoSearchEnabled =>
        /\ turn.inferenceCalls <= 1
        /\ pc # "enhancing"
        /\ ~turn.attempted
        /\ turn.searchQuery = ""
        /\ turn.enhanced = "none"
        /\ turn.returned =>
              /\ turn.inferenceCalls = 1
              /\ turn.responseErr = "" => turn.response = turn.initialResponse
              /\ turn.responseErr # "" => turn.primaryErr

\* with the setting off, a disclaimer to a question about the weather was
\* returned as it came
C35_Witness ==
    /\ ~autoSearchEnabled
    /\ turn.returned
    /\ turn.inferenceCalls = 1
    /\ turn.response = UpperDisclaimer
    /\ needsWebSearch(searchTriggers, turn.response, turn.messages)
    /\ extractSearchQuery(LastContent(turn.messages), turn.response) = "weather today Madrid"

\* the goroutine is never stuck at its send, and (true, nil) is returned
\* only for a nil that was received from the goroutine, which is then over
C36_SendAndSuccess ==
    /\ rec.goroutine = "sending" => SendReady
    /\ rec.success => /\ rec.caller = "returned"
                      /\ rec.received = "nil"
                      /\ rec.result = ""
                      /\ rec.goroutine = "done"

(***************************************************************************)
(* C36: the goroutine RecordAudio starts always comes to its end, its send *)
(* on recordingDone can always go on, also after RecordAudio has returned  *)
(* on a cancelled context, and RecordAudio returns (true, nil) only after  *)
(* it has received nil from the goroutine.                                 *)
(***************************************************************************)
C36_RecordingGoroutineEnds ==
    /\ [] C36_SendAndSuccess
    /\ (rec.goroutine = "running") ~> (rec.goroutine = "done")

\* RecordAudio returned on the cancelled context while the child ran, and
\* the goroutine has since left its result in the channel and ended
C36_Witness ==
    /\ rec.caller = "returned"
    /\ rec.err = "context canceled"
    /\ rec.received = "none"
    /\ rec.goroutine = "done"
    /\ rec.recordingDone = << "ffmpeg recording failed" >>
    /\ rec.elapsed > 0

(***************************************************************************)
(* C37: whatever the interleaving of Initialize, SendMessage and Shutdown  *)
(* calls on one client, no SendMessage hands a request to a nil            *)
(* c.httpClient.  The client is stored before the initialized flag is set, *)
(* so the flag implies it; a SendMessage that read the flag as false has   *)
(* been through an Initialize call that returned nil when it submits; and  *)
(* once stored the client is never nil again, Shutdown clearing the flag   *)
(* only.                                                                   *)
(***************************************************************************)
C37_NoSubmitWithoutTransport ==
    /\ initialized => httpClient # 0
    /\ setups > 0 => httpClient # 0
    /\ \A c \in DOMAIN callers :
          /\ callers[c].sent # "panic"
          /\ callers[c].sent = "yes" =>
                /\ callers[c].transport # 0
                /\ callers[c].pc = "returned"
                /\ callers[c].result = ""

\* a SendMessage found the client shut down, initialized it again and
\* handed its request to the new client
C37_Witness ==
    \E c \in DOMAIN callers, d \in DOMAIN callers :
        /\ callers[d].kind = "Shutdown"
        /\ callers[d].pc = "returned"
        /\ callers[c].kind = "SendMessage"
        /\ ~callers[c].seen
        /\ callers[c].didSetup
        /\ callers[c].sent = "yes"
        /\ callers[c].transport = 2

\* a SendMessage handed its request to the client after a Shutdown that came
\* between its check of the flag and its request
C37_WitnessAfterShutdown ==
    \E c \in DOMAIN callers, d \in DOMAIN callers :
        /\ callers[d].kind = "Shutdown"
        /\ callers[d].pc = "returned"
        /\ callers[c].kind = "SendMessage"
        /\ callers[c].seen
        /\ callers[c].sent = "yes"
        /\ ~initialized
        /\ callers[c].transport = 1

\* main goes from its select to Shutdown in this step
C38_ShutdownStep == mainPc = "select" /\ mainPc' = "exited" /\ shutdownResult' # "pending"

(***************************************************************************)
(* C38: after a successful Initialize, Shutdown is called once in every    *)
(* run of the process: not before a signal has come or Run has returned,   *)
(* not a second time, and always once Run is over.  Violated: Run can end  *)
(* in the panic of C1, which ends the process before main calls Shutdown.  *)
(***************************************************************************)
C38_ShutdownOncePerRun ==
    /\ [][ /\ C38_ShutdownStep => (initErr = "" /\ pc # "init" /\ (cancelled \/ pc = "done"))
           /\ shutdownResult # "pending" => UNCHANGED << shutdownResult, released >> ]_vars
    /\ [] ( (pc # "init" /\ initErr = "" /\ runResult # "running")
               => <> (shutdownResult # "pending") )

\* the same for the runs of the process whose command loop returns
C38_ShutdownAfterReturn ==
    /\ [][ /\ C38_ShutdownStep => (initErr = "" /\ pc # "init" /\ (cancelled \/ pc = "done"))
           /\ shutdownResult # "pending" => UNCHANGED << shutdownResult, released >> ]_vars
    /\ [] ( (pc # "init" /\ initErr = "" /\ runResult \notin { "running", "panic" })
               => <> (shutdownResult # "pending") )

(***************************************************************************)
(* C39: a Cleanup call that returns nil on a path naming a recording       *)
(* leaves no file at that path and an empty path field; a Cleanup call on  *)
(* an empty path field changes nothing and returns nil, so after one nil   *)
(* every later call is such a call; a call whose removal fails for another *)
(* reason than a missing file returns an error and leaves the path field   *)
(* and the file as they were.                                              *)
(***************************************************************************)
C39_CleanupIdempotent ==
    [][ Len(call.output') > Len(call.output) =>
          LET err == call.output'[Len(call.output')]
              removeFails == call.input'[Len(call.input')]
          IN  /\ (NamesRecording(AudioFilePath) /\ err = "")
                    => (AudioFilePath' = "" /\ AudioFilePath \notin files')
              /\ (NamesRecording(AudioFilePath) /\ AudioFilePath \in files /\ removeFails)
                    => (err # "" /\ AudioFilePath' = AudioFilePath /\ files' = files)
              /\ err # "" => (AudioFilePath' = AudioFilePath /\ files' = files)
              /\ AudioFilePath = ""
                    => (err = "" /\ AudioFilePath' = "" /\ files' = files)
              /\ (\E i \in 1..Len(call.output) :
                      call.output[i] = "" /\ \A j \in i..Len(call.output) : call.output[j] = "")
                    => (err = "" /\ AudioFilePath' = AudioFilePath /\ files' = files) ]_vars

\* a removal failed and left path and file, the next call removed the file,
\* and a third call found nothing to do
C39_Witness ==
    /\ pc = "cleanup"
    /\ call.input = << TRUE, FALSE, FALSE >>
    /\ call.output = << "failed to remove audio file", "", "" >>
    /\ AudioFilePath = ""
    /\ files = { ArtifactPath(0) }

====
